---------------------------- MODULE Spec2Model ----------------------------
(***************************************************************************)
(* A model of gustapinto/shards: the SqlQuerier replication coordinator    *)
(* (Transact), the shard registry with lazy once-only connections          *)
(* (Register / DB / CloseAll) and the multi-shard Querier (On / Do).       *)
(*                                                                         *)
(* The database driver (database/sql) is an external collaborator: every   *)
(* Open, Begin, Exec, Commit, Rollback and Close is a step whose outcome   *)
(* is chosen nondeterministically.                                         *)
(***************************************************************************)
EXTENDS Integers, Sequences, FiniteSets, TLC

\* Number of replicas the largest configured shard may have.
MaxReplicas == 2

-----------------------------------------------------------------------------
(***************************************************************************)
(* Go error values.  nil, a leaf error (errors.New or a driver error), an  *)
(* error wrapped by fmt.Errorf("... %w") with a shard key, and the result  *)
(* of errors.Join, which drops nil operands and is nil when all are nil.   *)
(***************************************************************************)
Nil == [kind |-> "nil", tag |-> "", id |-> 0, subs |-> <<>>]

Leaf(t, i) == [kind |-> "leaf", tag |-> t, id |-> i, subs |-> <<>>]

Wrap(key, e) == [kind |-> "wrap", tag |-> key, id |-> 0, subs |-> <<e>>]

NonNil(es) == SelectSeq(es, LAMBDA e : e # Nil)

Join(es) ==
    IF NonNil(es) = <<>> THEN Nil
    ELSE [kind |-> "join", tag |-> "", id |-> 0, subs |-> NonNil(es)]

ErrTxDone == Leaf("sql: transaction has already been committed or rolled back", 0)

\* errors.Is(e, target): e itself, or anything reachable through Unwrap.
RECURSIVE ErrorsIs(_, _)
ErrorsIs(e, target) ==
    \/ e = target
    \/ \E i \in 1..Len(e.subs) : ErrorsIs(e.subs[i], target)

\* The errors a value enumerates once every errors.Join level is opened.
RECURSIVE Entries(_)
RECURSIVE EntriesOfSeq(_)
Entries(e) ==
    IF e = Nil THEN <<>>
    ELSE IF e.kind = "join" THEN EntriesOfSeq(e.subs)
    ELSE <<e>>
EntriesOfSeq(es) ==
    IF es = <<>> THEN <<>> ELSE Entries(Head(es)) \o EntriesOfSeq(Tail(es))

-----------------------------------------------------------------------------
(***************************************************************************)
(* SqlQuerier.Transact                                                     *)
(***************************************************************************)
VARIABLES
    replicationStrategy, \* SqlQuerier.replicationStrategy
    sqShards,            \* SqlQuerier.shards: shard key -> number of replicas
    tpc,                 \* position of the Transact call
    tShardKey,           \* Transact's shardKey argument
    txs,                 \* the opened transactions, by owner (0 shard, j replica j)
    txState,             \* owner -> state of the transaction begun for it
    shardErr,            \* mutateAndReplicateAllSync's shardErr
    replicaErr,          \* mutateAndReplicateAllSync's replicaErr
    finalErr,            \* mutateAndReplicateAllSync's finalErr
    ti,                  \* index of the running loop
    tRet,                \* the error Transact returned
    tLog                 \* the driver calls of the call, in order: <<op, owner, result>>

tvars == <<replicationStrategy, sqShards, tpc, tShardKey, txs, txState,
           shardErr, replicaErr, finalErr, ti, tRet, tLog>>

(***************************************************************************)
(* The shard registry: Register, DB, CloseAll.  Shard objects live on the  *)
(* heap and the lookup table holds pointers to them; goroutines run the    *)
(* calls step by step, one SafeMap operation or driver call at a time.     *)
(***************************************************************************)
VARIABLES
    shardsLookupTable,   \* the registry: key -> Shard object, or NoShard
    db,                  \* Shard.db of every object: a handle, or NilDB
    dbErr,               \* Shard.dbErr of every object
    dbOnceDone,          \* Shard.dbOnce: its done flag
    dbOnceM,             \* Shard.dbOnce: the goroutine holding its mutex
    opens,               \* how many times sql.Open was called for the object
    connState,           \* every handle: unopened, open, closed, closeFailed
    pc,                  \* goroutine -> position in its call
    local,               \* goroutine -> the local variables of its call
    ret                  \* goroutine -> what its call returned

rvars == <<shardsLookupTable, db, dbErr, dbOnceDone, dbOnceM, opens,
           connState, pc, local, ret>>

(***************************************************************************)
(* The Querier built by On: its fields, and the run of one Do call.        *)
(***************************************************************************)
VARIABLES
    failFast,            \* Querier.failFast
    selectedShards,      \* Querier.selectedShards: Shard objects, in order
    qi,                  \* doSequential: position of the shard being run
    qErr,                \* doSequential: the error joined so far
    qTx,                 \* position -> state of the transaction begun for it
    qDo,                 \* position -> what the unit of work returned
    qStepErr,            \* position -> what doInShard returned
    qLog                 \* the steps of the Do call, in order: <<op, position, result>>

qvars == <<failFast, selectedShards, qi, qErr, qTx, qDo, qStepErr, qLog>>

(***************************************************************************)
(* A SafeMap used by several goroutines, and the copies they take of it.   *)
(***************************************************************************)
VARIABLES
    heap,                \* map object -> its contents (key -> value or NoValue)
    lock,                \* SafeMap.lock: [readers: goroutines, writer: goroutine]
    mpc,                 \* goroutine -> where it is in its SafeMap call
    mop,                 \* goroutine -> the call it makes: [op, key, value]
    access,              \* goroutine -> "none", or how it is using s.data now
    snapshot,            \* goroutine -> the map object Lookup or Clone gave it
    mret,                \* goroutine -> what its call returned
    original,            \* the contents Set and Del calls have given to s.data
    expected             \* goroutine -> the contents its copy was made with,
                         \*              and its own writes to the copy since

mvars == <<heap, lock, mpc, mop, access, snapshot, mret, original, expected>>

(***************************************************************************)
(* NewSqlQuerier: the configuration it is given, the sqlQuerierShard it is *)
(* building, the shards map of the SqlQuerier, and every connection the    *)
(* call has opened.                                                        *)
(***************************************************************************)
VARIABLES
    npc,                 \* position of the NewSqlQuerier call
    config,              \* its argument: [ReplicationStrategy, Shards], a
                         \* shard being its number of replicas
    ni,                  \* index in config.Shards of the shard being set up
    nj,                  \* index of the replica whose connection is opened next
    querierShards,       \* sqlQuerier.shards: the shards stored by Set
    sqlDB,               \* <<shard, 0>> or <<shard, replica>> -> the state of
                         \* the connection opened for it
    nRet                 \* what the call returned: "none", "ok" or "err"

nvars == <<npc, config, ni, nj, querierShards, sqlDB, nRet>>

(***************************************************************************)
(* The registry of shards.go: the package variable _shards is nil until    *)
(* the first registerShard creates the SafeMap, and an entry is stored     *)
(* with the connection registerShard has opened for it.                    *)
(***************************************************************************)
VARIABLES
    _shards,             \* the package variable: NilMap or a SafeMap object
    shardsData,          \* SafeMap object -> key -> the _db of its entry
    dbState,             \* connection -> "unopened", "open", "closed", "closeFailed"
    gOpens,              \* goroutine -> the connections it has opened
    gpc,                 \* goroutine -> where it is in its call
    glocal,              \* goroutine -> the locals of its call
    gret                 \* goroutine -> what its last call returned

svars == <<_shards, shardsData, dbState, gOpens, gpc, glocal, gret>>

vars == <<tvars, rvars, qvars, mvars, nvars, svars>>

ReplicateNone == "ReplicateNone"
ReplicateAll == "ReplicateAll"
ReplicateSome == "ReplicateSome"
Strategies == {ReplicateNone, ReplicateAll, ReplicateSome}

SqShardKey == "db1"
TransactKeys == {SqShardKey, "db9"}

Owners == 0..(MaxReplicas + 1)

\* Outcomes the driver can give to Rollback: done, "already finished", failed.
RollbackOutcomes == {"ok", "txdone", "fail"}

NoTx == [o \in Owners |-> "none"]

TInit ==
    /\ replicationStrategy \in Strategies
    /\ sqShards \in [{SqShardKey} -> 0..MaxReplicas]
    /\ tpc = "idle"
    /\ tShardKey = SqShardKey
    /\ txs = <<>>
    /\ txState = NoTx
    /\ shardErr = Nil
    /\ replicaErr = Nil
    /\ finalErr = Nil
    /\ ti = 0
    /\ tRet = Nil
    /\ tLog = <<>>

\* The branch Transact's switch takes: a Go case with an empty body leaves
\* the switch, it does not fall through to default.
TransactBranch(strategy) ==
    IF strategy = ReplicateAll THEN "rsBegin"
    ELSE IF strategy = ReplicateNone THEN "done"
    ELSE "nrBegin"

\* Transact: look the shard up and dispatch on the replication strategy.
Transact(key) ==
    /\ tpc = "idle"
    /\ tShardKey' = key
    /\ txs' = <<>>
    /\ txState' = NoTx
    /\ shardErr' = Nil
    /\ replicaErr' = Nil
    /\ finalErr' = Nil
    /\ ti' = 0
    /\ tLog' = <<>>
    /\ IF key \notin DOMAIN sqShards
       THEN /\ tRet' = Leaf("shard is not registered", 0)
            /\ tpc' = "done"
       ELSE /\ tRet' = Nil
            /\ tpc' = TransactBranch(replicationStrategy)
    /\ UNCHANGED <<replicationStrategy, sqShards>>
    /\ UNCHANGED <<rvars, qvars, mvars, nvars, svars>>

\* The caller takes the result; the querier is ready for the next call.
TransactReturn ==
    /\ tpc = "done"
    /\ tpc' = "idle"
    /\ UNCHANGED <<replicationStrategy, sqShards, tShardKey, txs, txState,
                   shardErr, replicaErr, finalErr, ti, tRet, tLog>>
    /\ UNCHANGED <<rvars, qvars, mvars, nvars, svars>>

Result(ok) == IF ok THEN "ok" ELSE "fail"

Logged(op, o, res) == Append(tLog, <<op, o, res>>)

(* mutateAndDontReplicate *)
DontReplicateBegin ==
    /\ tpc = "nrBegin"
    /\ \E ok \in BOOLEAN :
        /\ tLog' = Logged("begin", 0, Result(ok))
        /\ IF ok
           THEN /\ txs' = <<0>>
                /\ txState' = [txState EXCEPT ![0] = "open"]
                /\ tpc' = "nrExec"
                /\ tRet' = tRet
           ELSE /\ tRet' = Leaf("begin", 0)
                /\ tpc' = "done"
                /\ UNCHANGED <<txs, txState>>
    /\ UNCHANGED <<replicationStrategy, sqShards, tShardKey, shardErr,
                   replicaErr, finalErr, ti>>
    /\ UNCHANGED <<rvars, qvars, mvars, nvars, svars>>

DontReplicateExec ==
    /\ tpc = "nrExec"
    /\ \E ok \in BOOLEAN :
        /\ tLog' = Logged("exec", 0, Result(ok))
        /\ shardErr' = IF ok THEN Nil ELSE Leaf("exec", 0)
        /\ tpc' = IF ok THEN "nrCommit" ELSE "nrRollback"
    /\ UNCHANGED <<replicationStrategy, sqShards, tShardKey, txs, txState,
                   replicaErr, finalErr, ti, tRet>>
    /\ UNCHANGED <<rvars, qvars, mvars, nvars, svars>>

RollbackErr(out, o) ==
    IF out = "ok" THEN Nil
    ELSE IF out = "txdone" THEN ErrTxDone
    ELSE Leaf("rollback", o)

RollbackState(out) ==
    IF out = "ok" THEN "rolledback"
    ELSE IF out = "txdone" THEN "finished"
    ELSE "rollbackFailed"

DontReplicateRollback ==
    /\ tpc = "nrRollback"
    /\ \E out \in RollbackOutcomes :
        /\ tLog' = Logged("rollback", 0, out)
        /\ txState' = [txState EXCEPT ![0] = RollbackState(out)]
        /\ tRet' = IF RollbackErr(out, 0) # Nil
                   THEN Join(<<shardErr, RollbackErr(out, 0)>>)
                   ELSE shardErr
    /\ tpc' = "done"
    /\ UNCHANGED <<replicationStrategy, sqShards, tShardKey, txs, shardErr,
                   replicaErr, finalErr, ti>>
    /\ UNCHANGED <<rvars, qvars, mvars, nvars, svars>>

DontReplicateCommit ==
    /\ tpc = "nrCommit"
    /\ \E ok \in BOOLEAN :
        /\ tLog' = Logged("commit", 0, Result(ok))
        /\ txState' = [txState EXCEPT ![0] = IF ok THEN "committed" ELSE "commitFailed"]
        /\ tRet' = IF ok THEN Nil ELSE Leaf("commit", 0)
    /\ tpc' = "done"
    /\ UNCHANGED <<replicationStrategy, sqShards, tShardKey, txs, shardErr,
                   replicaErr, finalErr, ti>>
    /\ UNCHANGED <<rvars, qvars, mvars, nvars, svars>>

(* mutateAndReplicateAllSync *)
ReplicateAllBegin ==
    /\ tpc = "rsBegin"
    /\ \E ok \in BOOLEAN :
        /\ tLog' = Logged("begin", 0, Result(ok))
        /\ IF ok
           THEN /\ txs' = Append(txs, 0)
                /\ txState' = [txState EXCEPT ![0] = "open"]
                /\ tpc' = "rsExec"
                /\ tRet' = tRet
           ELSE /\ tRet' = Leaf("begin", 0)
                /\ tpc' = "done"
                /\ UNCHANGED <<txs, txState>>
    /\ UNCHANGED <<replicationStrategy, sqShards, tShardKey, shardErr,
                   replicaErr, finalErr, ti>>
    /\ UNCHANGED <<rvars, qvars, mvars, nvars, svars>>

\* The guard of the replica loop (traverseReplicas is always passed true).

TraverseReplicasWhateverTheShardDid(se, traverseReplicas) == traverseReplicas

TraverseReplicas(se, traverseReplicas) == se = Nil /\ traverseReplicas

\* Where the call goes once replica j-1 is through: replica j, or the decision.
ReplicaLoopSkipsLast(j, n) == IF j < n THEN "rsReplicaBegin" ELSE "rsDecide"

ReplicaLoop(j, n) == IF j <= n THEN "rsReplicaBegin" ELSE "rsDecide"

ReplicateAllExec ==
    /\ tpc = "rsExec"
    /\ \E ok \in BOOLEAN :
        LET se == IF ok THEN Nil ELSE Leaf("exec", 0) IN
        /\ tLog' = Logged("exec", 0, Result(ok))
        /\ shardErr' = se
        /\ ti' = 1
        /\ tpc' = IF TraverseReplicas(se, TRUE)
                  THEN ReplicaLoop(1, sqShards[tShardKey])
                  ELSE "rsDecide"
    /\ UNCHANGED <<replicationStrategy, sqShards, tShardKey, txs, txState,
                   replicaErr, finalErr, tRet>>
    /\ UNCHANGED <<rvars, qvars, mvars, nvars, svars>>

ReplicateAllReplicaBegin ==
    /\ tpc = "rsReplicaBegin"
    /\ \E ok \in BOOLEAN :
        /\ tLog' = Logged("begin", ti, Result(ok))
        /\ IF ok
           THEN /\ txs' = Append(txs, ti)
                /\ txState' = [txState EXCEPT ![ti] = "open"]
                /\ tpc' = "rsReplicaExec"
                /\ replicaErr' = replicaErr
           ELSE /\ replicaErr' = Leaf("begin", ti)
                /\ tpc' = "rsDecide"
                /\ UNCHANGED <<txs, txState>>
    /\ UNCHANGED <<replicationStrategy, sqShards, tShardKey, shardErr,
                   finalErr, ti, tRet>>
    /\ UNCHANGED <<rvars, qvars, mvars, nvars, svars>>

ReplicateAllReplicaExec ==
    /\ tpc = "rsReplicaExec"
    /\ \E ok \in BOOLEAN :
        /\ tLog' = Logged("exec", ti, Result(ok))
        /\ IF ok
           THEN /\ ti' = ti + 1
                /\ tpc' = ReplicaLoop(ti + 1, sqShards[tShardKey])
                /\ replicaErr' = replicaErr
           ELSE /\ replicaErr' = Leaf("exec", ti)
                /\ tpc' = "rsDecide"
                /\ ti' = ti
    /\ UNCHANGED <<replicationStrategy, sqShards, tShardKey, txs, txState,
                   shardErr, finalErr, tRet>>
    /\ UNCHANGED <<rvars, qvars, mvars, nvars, svars>>

commitAllShardOnly(se, re) == se = Nil

commitAll(se, re) == se = Nil /\ re = Nil

\* Where a commit or rollback loop over txs goes after its i-th transaction.
TxLoopSkipsLast(i, n, again) == IF i + 1 < n THEN again ELSE "done"

TxLoop(i, n, again) == IF i < n THEN again ELSE "done"

ReplicateAllDecide ==
    /\ tpc = "rsDecide"
    /\ ti' = 1
    /\ IF commitAll(shardErr, replicaErr)
       THEN /\ finalErr' = finalErr
            /\ tpc' = "rsCommit"
       ELSE /\ finalErr' = Join(<<shardErr, replicaErr>>)
            /\ tpc' = "rsRollback"
    /\ UNCHANGED <<replicationStrategy, sqShards, tShardKey, txs, txState,
                   shardErr, replicaErr, tRet, tLog>>
    /\ UNCHANGED <<rvars, qvars, mvars, nvars, svars>>

\* finalErr = errors.Join(finalErr, err) in the commit and rollback loops.
KeptFirstErr(fe, err) == IF fe # Nil THEN fe ELSE err

JoinedFinalErr(fe, err) == Join(<<fe, err>>)

ReplicateAllCommit ==
    /\ tpc = "rsCommit"
    /\ \E ok \in BOOLEAN :
        LET o == txs[ti]
            fe == IF ok THEN finalErr ELSE JoinedFinalErr(finalErr, Leaf("commit", o))
            to == TxLoop(ti, Len(txs), "rsCommit")
        IN
        /\ tLog' = Logged("commit", o, Result(ok))
        /\ txState' = [txState EXCEPT ![o] = IF ok THEN "committed" ELSE "commitFailed"]
        /\ finalErr' = fe
        /\ ti' = ti + 1
        /\ tpc' = to
        /\ tRet' = IF to = "done" THEN fe ELSE tRet
    /\ UNCHANGED <<replicationStrategy, sqShards, tShardKey, txs, shardErr,
                   replicaErr>>
    /\ UNCHANGED <<rvars, qvars, mvars, nvars, svars>>

ReplicateAllRollback ==
    /\ tpc = "rsRollback"
    /\ \E out \in RollbackOutcomes :
        LET o == txs[ti]
            fe == IF RollbackErr(out, o) # Nil
                  THEN JoinedFinalErr(finalErr, RollbackErr(out, o))
                  ELSE finalErr
            to == TxLoop(ti, Len(txs), "rsRollback")
        IN
        /\ tLog' = Logged("rollback", o, out)
        /\ txState' = [txState EXCEPT ![o] = RollbackState(out)]
        /\ finalErr' = fe
        /\ ti' = ti + 1
        /\ tpc' = to
        /\ tRet' = IF to = "done" THEN fe ELSE tRet
    /\ UNCHANGED <<replicationStrategy, sqShards, tShardKey, txs, shardErr,
                   replicaErr>>
    /\ UNCHANGED <<rvars, qvars, mvars, nvars, svars>>

TNext ==
    \/ \E key \in TransactKeys : Transact(key)
    \/ TransactReturn
    \/ DontReplicateBegin
    \/ DontReplicateExec
    \/ DontReplicateRollback
    \/ DontReplicateCommit
    \/ ReplicateAllBegin
    \/ ReplicateAllExec
    \/ ReplicateAllReplicaBegin
    \/ ReplicateAllReplicaExec
    \/ ReplicateAllDecide
    \/ ReplicateAllCommit
    \/ ReplicateAllRollback


-----------------------------------------------------------------------------
(***************************************************************************)
(* Properties of Transact                                                  *)
(***************************************************************************)
\* The driver was called with op for owner o during the call.
Called(op, o) == \E i \in 1..Len(tLog) : tLog[i][1] = op /\ tLog[i][2] = o

\* The owners whose transaction the call opened.
Opened == {txs[i] : i \in 1..Len(txs)}

\* A Transact call on a registered shard has returned under the strategy.
Returned(strategy) ==
    /\ tpc = "done"
    /\ replicationStrategy = strategy
    /\ tShardKey \in DOMAIN sqShards

PartialCommit ==
    \E a, b \in Opened : txState[a] = "committed" /\ txState[b] # "committed"

FailedReplica == replicaErr.id

ReplicaFailed == Returned(ReplicateAll) /\ shardErr = Nil /\ replicaErr # Nil

\* C2 as stated: when the shard step succeeds and replica i is the first to
\* fail, the opened transactions are exactly the shard's and those of
\* replicas 1..i, each gets a Rollback and none a Commit, and the returned
\* error is a combined one that includes the replica's failure.
C2_OpenedThroughFailedReplica ==
    ReplicaFailed =>
        /\ Opened = 0..FailedReplica
        /\ \A o \in Opened : Called("rollback", o)
        /\ \A o \in Owners : ~Called("commit", o)
        /\ tRet.kind = "join" /\ ErrorsIs(tRet, replicaErr)

\* C2 amended: the opened transactions are the shard's and those of replicas
\* 1..i-1, and replica i's own only when it failed in exec (a replica whose
\* begin failed has no transaction); no replica after i is begun; every
\* opened transaction gets a Rollback and none a Commit; the returned error
\* is a combined one that includes the replica's failure.
C2_OpenedUpToFailure ==
    ReplicaFailed =>
        /\ Opened = 0..(FailedReplica - 1)
                    \cup (IF replicaErr.tag = "exec" THEN {FailedReplica} ELSE {})
        /\ \A o \in Owners : o > FailedReplica => ~Called("begin", o)
        /\ \A o \in Opened : Called("rollback", o)
        /\ \A o \in Owners : ~Called("commit", o)
        /\ tRet.kind = "join" /\ ErrorsIs(tRet, replicaErr)

C2_Witness ==
    /\ ReplicaFailed
    /\ FailedReplica = 1
    /\ sqShards[tShardKey] >= 2
    /\ replicaErr.tag = "exec"
    /\ Opened = {0, 1}

\* Every driver call of the call succeeded.
AllCallsSucceeded == \A i \in 1..Len(tLog) : tLog[i][3] = "ok"

\* C3: when begin and exec succeed on the shard and on every replica and
\* every commit succeeds, a ReplicateAll call opens one transaction on the
\* shard and one on each replica, commits every one, rolls none back and
\* returns nil.
C3_AllSucceedAllCommitted ==
    (Returned(ReplicateAll) /\ AllCallsSucceeded) =>
        /\ txs = [j \in 1..(sqShards[tShardKey] + 1) |-> j - 1]
        /\ \A o \in Opened : txState[o] = "committed" /\ ~Called("rollback", o)
        /\ tRet = Nil

C3_Witness ==
    /\ Returned(ReplicateAll)
    /\ AllCallsSucceeded
    /\ sqShards[tShardKey] = MaxReplicas
    /\ Len(txs) = MaxReplicas + 1

\* C4: under ReplicateNone a Transact call on a registered shard begins a
\* transaction on the shard, executes the statement in it, commits it when
\* the execution succeeded and rolls it back when it failed, and opens no
\* replica transaction.
C4_NoneRunsShardTransaction ==
    Returned(ReplicateNone) =>
        /\ Called("begin", 0)
        /\ 0 \in Opened => Called("exec", 0)
        /\ (0 \in Opened /\ shardErr = Nil) =>
                Called("commit", 0) /\ ~Called("rollback", 0)
        /\ (0 \in Opened /\ shardErr # Nil) =>
                Called("rollback", 0) /\ ~Called("commit", 0)
        /\ \A o \in Owners \ {0} : ~Called("begin", o)

\* The n-th call of the log is a Begin or an Exec that failed.
StepFailedAt(n) == tLog[n][1] \in {"begin", "exec"} /\ tLog[n][3] # "ok"

\* C20: under ReplicateAll the replicas' transactions are begun one at a
\* time in the order of the replicas; when the transaction of replica j is
\* begun, Begin and Exec have succeeded on the shard and on every replica
\* before j, in that order, the Exec of j-1 being the call just before; no
\* transaction is begun after a Begin or an Exec has failed.
C20_ReplicasBegunInOrderUntilFailure ==
    replicationStrategy = ReplicateAll =>
        \A n \in DOMAIN tLog : (tLog[n][1] = "begin" /\ tLog[n][2] >= 1) =>
            LET j == tLog[n][2] IN
            /\ j <= sqShards[tShardKey]
            /\ \A m \in 1..(n - 1) : ~StepFailedAt(m)
            /\ \A i \in 0..(j - 1) :
                    \E a, b \in 1..(n - 1) :
                        /\ a < b
                        /\ tLog[a] = <<"begin", i, "ok">>
                        /\ tLog[b] = <<"exec", i, "ok">>
            /\ \A m \in 1..(n - 1) : tLog[m][1] = "begin" => tLog[m][2] < j
            /\ tLog[n - 1] = <<"exec", j - 1, "ok">>

C20_Witness ==
    /\ Returned(ReplicateAll)
    /\ sqShards[tShardKey] = 2
    /\ Len(tLog) >= 5
    /\ tLog[5] = <<"begin", 2, "fail">>
    /\ ~Called("exec", 2)

\* The error the n-th driver call of the log returned.
ErrOf(n) ==
    IF tLog[n][3] = "txdone" THEN ErrTxDone ELSE Leaf(tLog[n][1], tLog[n][2])

\* The calls of the log, among the operations ops, that returned an error.
FailedCalls(ops) == {n \in DOMAIN tLog : tLog[n][1] \in ops /\ tLog[n][3] # "ok"}

\* C22: Transact on a registered shard returns nil exactly when every Begin,
\* Exec and Commit it made succeeded, and the error it returns otherwise
\* contains the error of every Exec, Commit and Rollback that failed during
\* the call.
C22_EveryFailureReturned ==
    (tpc = "done" /\ tShardKey \in DOMAIN sqShards) =>
        /\ tRet = Nil <=> FailedCalls({"begin", "exec", "commit"}) = {}
        /\ \A n \in FailedCalls({"exec", "commit", "rollback"}) :
                ErrorsIs(tRet, ErrOf(n))

C22_Witness ==
    /\ Returned(ReplicateAll)
    /\ Cardinality(FailedCalls({"exec"})) = 1
    /\ Cardinality(FailedCalls({"rollback"})) = 3
    /\ \E n \in FailedCalls({"rollback"}) : tLog[n][3] = "txdone"

\* A Rollback of the call answered that the transaction is already finished.
RollbackFoundTxDone ==
    \E n \in DOMAIN tLog : tLog[n][1] = "rollback" /\ tLog[n][3] = "txdone"

\* C25: when a Rollback made by Transact answers that the transaction is
\* already finished, that answer is benign: the error Transact returns does
\* not contain it.
C25_TxDoneRollbackIsBenign ==
    (tpc = "done" /\ RollbackFoundTxDone) => ~ErrorsIs(tRet, ErrTxDone)

-----------------------------------------------------------------------------
(***************************************************************************)
(* The shard registry                                                      *)
(***************************************************************************)
\* The goroutines calling the package; NoProc holds a free mutex.
Procs == {1, 2}
NoProc == 0

\* The Shard objects callers hold (NewShard results), by their Key field:
\* two objects share a key, so that one can replace the other.
Shards == <<"a", "a", "b">>
Objs == 1..Len(Shards)
NoShard == 0
Key(o) == Shards[o]
Keys == {Key(o) : o \in Objs}

\* How many shards one Register call is given at most.
MaxRegister == 2
\* sql.Open calls counted per object.
MaxOpens == 2

Handles == Objs \X (1..MaxOpens)
NilDB == <<0, 0>>

SeqsUpTo(S, n) == UNION {[1..m -> S] : m \in 0..n}

\* (startEntries and closeCalls record, for one CloseAll call, the entries
\* registered when it read the keys and the close calls it made.)
NoLocal == [shards |-> <<>>, shard |-> NoShard, oldShard |-> NoShard,
            key |-> "", keys |-> <<>>, closeErr |-> Nil, caller |-> "api",
            startEntries |-> {}, closeCalls |-> <<>>]
NoRet == [err |-> Nil, db |-> NilDB, errs |-> <<>>]

RInit ==
    /\ shardsLookupTable = [k \in Keys |-> NoShard]
    /\ db = [o \in Objs |-> NilDB]
    /\ dbErr = [o \in Objs |-> Nil]
    /\ dbOnceDone = [o \in Objs |-> FALSE]
    /\ dbOnceM = [o \in Objs |-> NoProc]
    /\ opens = [o \in Objs |-> 0]
    /\ connState = [h \in Handles |-> "unopened"]
    /\ pc = [p \in Procs |-> "idle"]
    /\ local = [p \in Procs |-> NoLocal]
    /\ ret = [p \in Procs |-> NoRet]

(* SafeMap: every operation runs under the map's lock, so it is one step. *)
Get(key) == shardsLookupTable[key]
Set(key, value) == [shardsLookupTable EXCEPT ![key] = value]
Del(key) == [shardsLookupTable EXCEPT ![key] = NoShard]
RegisteredKeys == {k \in Keys : shardsLookupTable[k] # NoShard}

\* Keys(): the registered keys, in the order the map iteration gives them.
KeysOrders ==
    {ks \in [1..Cardinality(RegisteredKeys) -> RegisteredKeys] :
        \A i, j \in DOMAIN ks : i # j => ks[i] # ks[j]}

(* Shard.close: close the connection if there is one.  sql.DB.Close can    *)
(* fail the first time it is called and answers nil once the DB is closed. *)
CloseOutcomes(o) ==
    IF db[o] # NilDB /\ connState[db[o]] = "open" THEN {"ok", "fail"} ELSE {"ok"}

CloseErr(o, out) == IF out = "ok" THEN Nil ELSE Leaf("close", o)

closeLeavesOpen(o, out) == connState

close(o, out) ==
    IF db[o] # NilDB /\ connState[db[o]] = "open"
    THEN [connState EXCEPT ![db[o]] = IF out = "ok" THEN "closed" ELSE "closeFailed"]
    ELSE connState

(* Register *)
RegisterCall(p, shards) ==
    /\ pc[p] = "idle"
    /\ local' = [local EXCEPT ![p] = [NoLocal EXCEPT !.shards = shards]]
    /\ ret' = [ret EXCEPT ![p] = NoRet]
    /\ pc' = [pc EXCEPT ![p] = IF shards = <<>> THEN "regRet" ELSE "regGet"]
    /\ UNCHANGED <<shardsLookupTable, db, dbErr, dbOnceDone, dbOnceM, opens, connState>>
    /\ UNCHANGED <<tvars, qvars, mvars, nvars, svars>>

\* registerShard: look the key up.
RegisterGet(p) ==
    /\ pc[p] = "regGet"
    /\ LET shard == Head(local[p].shards)
           oldShard == Get(Key(shard))
       IN /\ local' = [local EXCEPT ![p].shard = shard, ![p].oldShard = oldShard,
                                    ![p].closeErr = Nil]
          /\ pc' = [pc EXCEPT ![p] = IF oldShard # NoShard THEN "regClose" ELSE "regSet"]
    /\ UNCHANGED <<shardsLookupTable, db, dbErr, dbOnceDone, dbOnceM, opens, connState, ret>>
    /\ UNCHANGED <<tvars, qvars, mvars, nvars, svars>>

\* registerShard: what follows oldShard.close().
AfterCloseIgnoringErr(err) == "regSet"

AfterClose(err) == IF err # Nil THEN "regRet" ELSE "regSet"

\* registerShard: close the entry found under the key.
RegisterClose(p) ==
    /\ pc[p] = "regClose"
    /\ \E out \in CloseOutcomes(local[p].oldShard) :
        LET err == CloseErr(local[p].oldShard, out) IN
        /\ connState' = close(local[p].oldShard, out)
        /\ local' = [local EXCEPT ![p].closeErr = err]
        /\ ret' = [ret EXCEPT ![p].err = IF AfterClose(err) = "regRet" THEN err ELSE @]
        /\ pc' = [pc EXCEPT ![p] = AfterClose(err)]
    /\ UNCHANGED <<shardsLookupTable, db, dbErr, dbOnceDone, dbOnceM, opens>>
    /\ UNCHANGED <<tvars, qvars, mvars, nvars, svars>>

\* registerShard: install the entry; Register goes on to its next shard.
RegisterSet(p) ==
    /\ pc[p] = "regSet"
    /\ shardsLookupTable' = Set(Key(local[p].shard), local[p].shard)
    /\ local' = [local EXCEPT ![p].shards = Tail(@)]
    /\ pc' = [pc EXCEPT ![p] = IF Tail(local[p].shards) = <<>> THEN "regRet" ELSE "regGet"]
    /\ UNCHANGED <<db, dbErr, dbOnceDone, dbOnceM, opens, connState, ret>>
    /\ UNCHANGED <<tvars, qvars, mvars, nvars, svars>>

(* DB *)
DBCall(p, key) ==
    /\ pc[p] = "idle"
    /\ local' = [local EXCEPT ![p] = [NoLocal EXCEPT !.key = key]]
    /\ ret' = [ret EXCEPT ![p] = NoRet]
    /\ pc' = [pc EXCEPT ![p] = "dbGet"]
    /\ UNCHANGED <<shardsLookupTable, db, dbErr, dbOnceDone, dbOnceM, opens, connState>>
    /\ UNCHANGED <<tvars, qvars, mvars, nvars, svars>>

\* Where a DB call that is through hands its result.
DBDone(p) == IF local[p].caller = "querier" THEN "doBegin" ELSE "dbRet"

DBGet(p) ==
    /\ pc[p] = "dbGet"
    /\ LET shard == Get(local[p].key) IN
        /\ local' = [local EXCEPT ![p].shard = shard]
        /\ IF shard = NoShard
           THEN /\ ret' = [ret EXCEPT ![p].db = NilDB]
                /\ pc' = [pc EXCEPT ![p] = DBDone(p)]
           ELSE /\ ret' = ret
                /\ pc' = [pc EXCEPT ![p] = "onceDo"]
    /\ UNCHANGED <<shardsLookupTable, db, dbErr, dbOnceDone, dbOnceM, opens, connState>>
    /\ UNCHANGED <<tvars, qvars, mvars, nvars, svars>>

(* Shard.connect: s.dbOnce.Do(func() { s.db, s.dbErr = sql.Open(...) }) *)
\* Once.Do: nothing to do when the flag is set, else take the slow path.
OnceDo(p) ==
    /\ pc[p] = "onceDo"
    /\ pc' = [pc EXCEPT ![p] = IF dbOnceDone[local[p].shard] THEN "connected" ELSE "onceLock"]
    /\ UNCHANGED <<shardsLookupTable, db, dbErr, dbOnceDone, dbOnceM, opens, connState,
                   local, ret>>
    /\ UNCHANGED <<tvars, qvars, mvars, nvars, svars>>

\* The check of the flag made again under the mutex.
DoneUnderLockUnchecked(o) == FALSE

DoneUnderLock(o) == dbOnceDone[o]

\* Once.Do, slow path: wait for the mutex, then look at the flag again.
OnceLock(p) ==
    /\ pc[p] = "onceLock"
    /\ dbOnceM[local[p].shard] = NoProc
    /\ dbOnceM' = [dbOnceM EXCEPT ![local[p].shard] = p]
    /\ pc' = [pc EXCEPT ![p] = IF DoneUnderLock(local[p].shard) THEN "onceUnlock" ELSE "onceF"]
    /\ UNCHANGED <<shardsLookupTable, db, dbErr, dbOnceDone, opens, connState, local, ret>>
    /\ UNCHANGED <<tvars, qvars, mvars, nvars, svars>>

\* The function given to Once.Do: sql.Open, its results stored in the Shard.
OnceF(p) ==
    /\ pc[p] = "onceF"
    /\ opens[local[p].shard] < MaxOpens
    /\ LET o == local[p].shard
           h == <<o, opens[o] + 1>>
       IN \E ok \in BOOLEAN :
            /\ opens' = [opens EXCEPT ![o] = @ + 1]
            /\ db' = [db EXCEPT ![o] = IF ok THEN h ELSE NilDB]
            /\ dbErr' = [dbErr EXCEPT ![o] = IF ok THEN Nil ELSE Leaf("open", o)]
            /\ connState' = IF ok THEN [connState EXCEPT ![h] = "open"] ELSE connState
    /\ pc' = [pc EXCEPT ![p] = "onceStore"]
    /\ UNCHANGED <<shardsLookupTable, dbOnceDone, dbOnceM, local, ret>>
    /\ UNCHANGED <<tvars, qvars, mvars, nvars, svars>>

\* Once.Do, deferred: the flag is set whatever the function did.
DoneStoredOnSuccess(o) == dbErr[o] = Nil

DoneStored(o) == TRUE

\* Once.Do, deferred: set the flag ...
OnceStore(p) ==
    /\ pc[p] = "onceStore"
    /\ dbOnceDone' = [dbOnceDone EXCEPT ![local[p].shard] = DoneStored(local[p].shard)]
    /\ pc' = [pc EXCEPT ![p] = "onceUnlock"]
    /\ UNCHANGED <<shardsLookupTable, db, dbErr, dbOnceM, opens, connState, local, ret>>
    /\ UNCHANGED <<tvars, qvars, mvars, nvars, svars>>

\* ... and release the mutex.
OnceUnlock(p) ==
    /\ pc[p] = "onceUnlock"
    /\ dbOnceM' = [dbOnceM EXCEPT ![local[p].shard] = NoProc]
    /\ pc' = [pc EXCEPT ![p] = "connected"]
    /\ UNCHANGED <<shardsLookupTable, db, dbErr, dbOnceDone, opens, connState, local, ret>>
    /\ UNCHANGED <<tvars, qvars, mvars, nvars, svars>>

\* DB: connect returned s.dbErr; answer nil on an error, shard.db otherwise.
DBConnected(p) ==
    /\ pc[p] = "connected"
    /\ ret' = [ret EXCEPT ![p].db = IF dbErr[local[p].shard] # Nil THEN NilDB
                                    ELSE db[local[p].shard]]
    /\ pc' = [pc EXCEPT ![p] = DBDone(p)]
    /\ UNCHANGED <<shardsLookupTable, db, dbErr, dbOnceDone, dbOnceM, opens, connState, local>>
    /\ UNCHANGED <<tvars, qvars, mvars, nvars, svars>>

(* CloseAll *)
CloseAllCall(p) ==
    /\ pc[p] = "idle"
    /\ local' = [local EXCEPT ![p] = NoLocal]
    /\ ret' = [ret EXCEPT ![p] = NoRet]
    /\ pc' = [pc EXCEPT ![p] = "caKeys"]
    /\ UNCHANGED <<shardsLookupTable, db, dbErr, dbOnceDone, dbOnceM, opens, connState>>
    /\ UNCHANGED <<tvars, qvars, mvars, nvars, svars>>

\* CloseAll: where the loop over the keys goes with these keys left.
CloseAllLoopOnce(keys) == "caRet"

CloseAllLoop(keys) == IF keys = <<>> THEN "caRet" ELSE "csGet"

CloseAllKeys(p) ==
    /\ pc[p] = "caKeys"
    /\ \E ks \in KeysOrders :
        /\ local' = [local EXCEPT ![p].keys = ks,
                                   ![p].startEntries = {Get(k) : k \in RegisteredKeys}]
        /\ pc' = [pc EXCEPT ![p] = CloseAllLoop(ks)]
    /\ UNCHANGED <<shardsLookupTable, db, dbErr, dbOnceDone, dbOnceM, opens, connState, ret>>
    /\ UNCHANGED <<tvars, qvars, mvars, nvars, svars>>

\* closeShard: look the key up; nothing to do when it is gone.
CloseShardGet(p) ==
    /\ pc[p] = "csGet"
    /\ LET key == Head(local[p].keys)
           shard == Get(key)
       IN IF shard = NoShard
          THEN /\ local' = [local EXCEPT ![p].key = key, ![p].shard = shard,
                                         ![p].keys = Tail(@)]
               /\ pc' = [pc EXCEPT ![p] = CloseAllLoop(Tail(local[p].keys))]
          ELSE /\ local' = [local EXCEPT ![p].key = key, ![p].shard = shard]
               /\ pc' = [pc EXCEPT ![p] = "csClose"]
    /\ UNCHANGED <<shardsLookupTable, db, dbErr, dbOnceDone, dbOnceM, opens, connState, ret>>
    /\ UNCHANGED <<tvars, qvars, mvars, nvars, svars>>

\* closeShard: close the entry; a failure is returned and kept by CloseAll.
CloseShardClose(p) ==
    /\ pc[p] = "csClose"
    /\ \E out \in CloseOutcomes(local[p].shard) :
        LET err == CloseErr(local[p].shard, out) IN
        /\ connState' = close(local[p].shard, out)
        /\ IF err # Nil
           THEN /\ ret' = [ret EXCEPT ![p].errs = Append(@, err)]
                /\ local' = [local EXCEPT ![p].closeErr = err, ![p].keys = Tail(@),
                                           ![p].closeCalls = Append(@, <<local[p].shard, out>>)]
                /\ pc' = [pc EXCEPT ![p] = CloseAllLoop(Tail(local[p].keys))]
           ELSE /\ ret' = ret
                /\ local' = [local EXCEPT ![p].closeErr = err,
                                           ![p].closeCalls = Append(@, <<local[p].shard, out>>)]
                /\ pc' = [pc EXCEPT ![p] = "csDel"]
    /\ UNCHANGED <<shardsLookupTable, db, dbErr, dbOnceDone, dbOnceM, opens>>
    /\ UNCHANGED <<tvars, qvars, mvars, nvars, svars>>

\* closeShard: remove the entry.
CloseShardDel(p) ==
    /\ pc[p] = "csDel"
    /\ shardsLookupTable' = Del(local[p].key)
    /\ local' = [local EXCEPT ![p].keys = Tail(@)]
    /\ pc' = [pc EXCEPT ![p] = CloseAllLoop(Tail(local[p].keys))]
    /\ UNCHANGED <<db, dbErr, dbOnceDone, dbOnceM, opens, connState, ret>>
    /\ UNCHANGED <<tvars, qvars, mvars, nvars, svars>>

\* The caller has the result of its call and may make the next one.
Return(p) ==
    /\ pc[p] \in {"regRet", "dbRet", "caRet", "onRet"}
    /\ pc' = [pc EXCEPT ![p] = "idle"]
    /\ local' = [local EXCEPT ![p] = NoLocal]
    /\ ret' = [ret EXCEPT ![p] = NoRet]
    /\ UNCHANGED <<shardsLookupTable, db, dbErr, dbOnceDone, dbOnceM, opens, connState>>
    /\ UNCHANGED <<tvars, qvars, mvars, nvars, svars>>

\* The steps of goroutine p, its calls made with the Shard objects objs.
RNext(p, objs) ==
    \/ \E shards \in SeqsUpTo(objs, MaxRegister) \ {<<>>} : RegisterCall(p, shards)
    \/ RegisterGet(p)
    \/ RegisterClose(p)
    \/ RegisterSet(p)
    \/ \E key \in {Key(o) : o \in objs} : DBCall(p, key)
    \/ DBGet(p)
    \/ OnceDo(p)
    \/ OnceLock(p)
    \/ OnceF(p)
    \/ OnceStore(p)
    \/ OnceUnlock(p)
    \/ DBConnected(p)
    \/ CloseAllCall(p)
    \/ CloseAllKeys(p)
    \/ CloseShardGet(p)
    \/ CloseShardClose(p)
    \/ CloseShardDel(p)
    \/ Return(p)

-----------------------------------------------------------------------------
(***************************************************************************)
(* SafeMap (safe_map.go).  A map access is not atomic: it is entered and   *)
(* left in two steps, so that two goroutines can be seen inside s.data at  *)
(* the same time.                                                          *)
(***************************************************************************)
SafeMapKeys == {"k1", "k2"}
SafeMapValues == {"v1"}
NoValue == "none"

\* Map objects: s.data, and one for the copy each goroutine holds.
Data == 0
MapObjs == {Data} \cup Procs
NoMap == 3

EmptyMap == [k \in SafeMapKeys |-> NoValue]

Ops == {"Len", "Get", "Set", "Del", "Lookup", "Keys", "Values", "Clone"}

NoOp == [op |-> "", key |-> "", value |-> NoValue]

\* The lock each operation takes around its use of s.data.
LockMode(op) ==
    IF op = "Len" THEN "none"
    ELSE IF op \in {"Set", "Del"} THEN "write"
    ELSE "read"

\* How each operation uses s.data.
AccessMode(op) == IF op \in {"Set", "Del"} THEN "write" ELSE "read"

MInit ==
    /\ heap = [m \in MapObjs |-> EmptyMap]
    /\ lock = [readers |-> {}, writer |-> NoProc]
    /\ mpc = [p \in Procs |-> "idle"]
    /\ mop = [p \in Procs |-> NoOp]
    /\ access = [p \in Procs |-> "none"]
    /\ snapshot = [p \in Procs |-> NoMap]
    /\ mret = [p \in Procs |-> NoValue]
    /\ original = EmptyMap
    /\ expected = [p \in Procs |-> EmptyMap]

\* The calls that can be made: each operation with the arguments it takes.
Calls ==
    {[op |-> "Set", key |-> k, value |-> v] : k \in SafeMapKeys, v \in SafeMapValues}
    \cup {[op |-> o, key |-> k, value |-> NoValue] : o \in {"Get", "Del"}, k \in SafeMapKeys}
    \cup {[op |-> o, key |-> "", value |-> NoValue] : o \in Ops \ {"Get", "Set", "Del"}}

\* A goroutine calls an operation of the SafeMap.
SafeMapCall(p, call) ==
    /\ mpc[p] = "idle"
    /\ mop' = [mop EXCEPT ![p] = call]
    /\ mpc' = [mpc EXCEPT ![p] = IF LockMode(call.op) = "none" THEN "enter" ELSE "lock"]
    /\ UNCHANGED <<heap, lock, access, snapshot, mret, original, expected>>
    /\ UNCHANGED <<tvars, rvars, qvars, nvars, svars>>

\* s.lock.RLock(): waits while a writer holds the lock.
RLock(p) ==
    /\ mpc[p] = "lock"
    /\ LockMode(mop[p].op) = "read"
    /\ lock.writer = NoProc
    /\ lock' = [lock EXCEPT !.readers = @ \cup {p}]
    /\ mpc' = [mpc EXCEPT ![p] = "enter"]
    /\ UNCHANGED <<heap, mop, access, snapshot, mret, original, expected>>
    /\ UNCHANGED <<tvars, rvars, qvars, nvars, svars>>

\* s.lock.Lock(): waits while anyone holds the lock.
Lock(p) ==
    /\ mpc[p] = "lock"
    /\ LockMode(mop[p].op) = "write"
    /\ lock.writer = NoProc /\ lock.readers = {}
    /\ lock' = [lock EXCEPT !.writer = p]
    /\ mpc' = [mpc EXCEPT ![p] = "enter"]
    /\ UNCHANGED <<heap, mop, access, snapshot, mret, original, expected>>
    /\ UNCHANGED <<tvars, rvars, qvars, nvars, svars>>

\* The operation starts to read or write s.data.
Enter(p) ==
    /\ mpc[p] = "enter"
    /\ access' = [access EXCEPT ![p] = AccessMode(mop[p].op)]
    /\ mpc' = [mpc EXCEPT ![p] = "leave"]
    /\ UNCHANGED <<heap, lock, mop, snapshot, mret, original, expected>>
    /\ UNCHANGED <<tvars, rvars, qvars, nvars, svars>>

\* The map object Lookup returns: a new one, filled from s.data.
SnapshotOfDataItself(p) == Data

Snapshot(p) == p

\* What the operation of p leaves in the map objects.
Written(p) ==
    LET o == mop[p] IN
    IF o.op = "Set" THEN [heap EXCEPT ![Data][o.key] = o.value]
    ELSE IF o.op = "Del" THEN [heap EXCEPT ![Data][o.key] = NoValue]
    ELSE IF o.op \in {"Lookup", "Clone"} /\ Snapshot(p) # Data
         THEN [heap EXCEPT ![Snapshot(p)] = heap[Data]]
    ELSE heap

\* What the operation of p returns.
Read(p) ==
    LET o == mop[p]
        d == heap[Data]
    IN  IF o.op = "Len" THEN Cardinality({k \in SafeMapKeys : d[k] # NoValue})
        ELSE IF o.op = "Get" THEN d[o.key]
        ELSE IF o.op = "Keys" THEN {k \in SafeMapKeys : d[k] # NoValue}
        ELSE IF o.op = "Values" THEN {d[k] : k \in SafeMapKeys} \ {NoValue}
        ELSE NoValue

\* The operation is through with s.data.
Leave(p) ==
    /\ mpc[p] = "leave"
    /\ heap' = Written(p)
    /\ mret' = [mret EXCEPT ![p] = Read(p)]
    /\ access' = [access EXCEPT ![p] = "none"]
    /\ IF mop[p].op \in {"Lookup", "Clone"}
       THEN /\ snapshot' = [snapshot EXCEPT ![p] = Snapshot(p)]
            /\ expected' = [expected EXCEPT ![p] = heap[Data]]
       ELSE UNCHANGED <<snapshot, expected>>
    /\ original' = IF mop[p].op = "Set" THEN [original EXCEPT ![mop[p].key] = mop[p].value]
                   ELSE IF mop[p].op = "Del" THEN [original EXCEPT ![mop[p].key] = NoValue]
                   ELSE original
    /\ mpc' = [mpc EXCEPT ![p] = IF LockMode(mop[p].op) = "none" THEN "ret" ELSE "unlock"]
    /\ UNCHANGED <<lock, mop>>
    /\ UNCHANGED <<tvars, rvars, qvars, nvars, svars>>

\* defer s.lock.RUnlock()
RUnlock(p) ==
    /\ mpc[p] = "unlock"
    /\ LockMode(mop[p].op) = "read"
    /\ lock' = [lock EXCEPT !.readers = @ \ {p}]
    /\ mpc' = [mpc EXCEPT ![p] = "ret"]
    /\ UNCHANGED <<heap, mop, access, snapshot, mret, original, expected>>
    /\ UNCHANGED <<tvars, rvars, qvars, nvars, svars>>

\* defer s.lock.Unlock()
Unlock(p) ==
    /\ mpc[p] = "unlock"
    /\ LockMode(mop[p].op) = "write"
    /\ lock' = [lock EXCEPT !.writer = NoProc]
    /\ mpc' = [mpc EXCEPT ![p] = "ret"]
    /\ UNCHANGED <<heap, mop, access, snapshot, mret, original, expected>>
    /\ UNCHANGED <<tvars, rvars, qvars, nvars, svars>>

\* The caller has the result.
SafeMapReturn(p) ==
    /\ mpc[p] = "ret"
    /\ mpc' = [mpc EXCEPT ![p] = "idle"]
    /\ mop' = [mop EXCEPT ![p] = NoOp]
    /\ mret' = [mret EXCEPT ![p] = NoValue]
    /\ UNCHANGED <<heap, lock, access, snapshot, original, expected>>
    /\ UNCHANGED <<tvars, rvars, qvars, nvars, svars>>

\* The holder of a copy changes it: an assignment or a delete on the map
\* Lookup returned, a Set or a Del on the SafeMap Clone returned.
CopyWrite(p, key, value) ==
    /\ mpc[p] = "idle"
    /\ snapshot[p] # NoMap
    /\ heap' = [heap EXCEPT ![snapshot[p]][key] = value]
    /\ expected' = [expected EXCEPT ![p][key] = value]
    /\ UNCHANGED <<lock, mpc, mop, access, snapshot, mret, original>>
    /\ UNCHANGED <<tvars, rvars, qvars, nvars, svars>>

MNext ==
    \E p \in Procs :
        \/ \E call \in Calls : SafeMapCall(p, call)
        \/ RLock(p)
        \/ Lock(p)
        \/ Enter(p)
        \/ Leave(p)
        \/ RUnlock(p)
        \/ Unlock(p)
        \/ SafeMapReturn(p)
        \/ \E key \in SafeMapKeys, value \in SafeMapValues \cup {NoValue} :
                CopyWrite(p, key, value)

-----------------------------------------------------------------------------
(***************************************************************************)
(* The Querier: On, OnAll, FailFast, Do                                    *)
(***************************************************************************)
\* How many keys one On call is given at most.
MaxSelect == 2

ErrFailedToOpenDB == Leaf("failed to open a database connection for shard", 0)

\* What a unit of work can return: (commit, err).  NoDo: it was not called.
DoResults(i) ==
    {[called |-> TRUE, commit |-> c, err |-> e] : c \in BOOLEAN, e \in {Nil, Leaf("do", i)}}

NoDo == [called |-> FALSE, commit |-> FALSE, err |-> Nil]

\* Outcomes the driver can give to Commit.
CommitOutcomes == {"ok", "txdone", "fail"}

CommitErr(out, i) ==
    IF out = "ok" THEN Nil
    ELSE IF out = "txdone" THEN ErrTxDone
    ELSE Leaf("commit", i)

CommitState(out) ==
    IF out = "ok" THEN "committed"
    ELSE IF out = "txdone" THEN "finished"
    ELSE "commitFailed"

\* sql.DB.Begin fails on a DB that has been closed.
BeginOutcomes(h) == IF connState[h] = "open" THEN BOOLEAN ELSE {FALSE}

isTxDoneErr(err) == err # Nil /\ ErrorsIs(err, ErrTxDone)

QLogged(op, i, res) == Append(qLog, <<op, i, res>>)

\* The registered shards among keys, in the order of keys.
SelectedLastFirst(keys) ==
    LET found == SelectSeq(keys, LAMBDA k : Get(k) # NoShard)
    IN  [i \in 1..Len(found) |-> Get(found[Len(found) + 1 - i])]

RECURSIVE Selected(_)
Selected(keys) ==
    IF keys = <<>> THEN <<>>
    ELSE IF Get(Head(keys)) # NoShard
         THEN <<Get(Head(keys))>> \o Selected(Tail(keys))
         ELSE Selected(Tail(keys))

\* On(keys...): a new Querier over the registered shards among keys.
On(p, keys) ==
    /\ pc[p] = "idle"
    /\ selectedShards' = Selected(keys)
    /\ failFast' = FALSE
    /\ local' = [local EXCEPT ![p] = [NoLocal EXCEPT !.keys = keys]]
    /\ ret' = [ret EXCEPT ![p] = NoRet]
    /\ pc' = [pc EXCEPT ![p] = "onRet"]
    /\ UNCHANGED <<qi, qErr, qTx, qDo, qStepErr, qLog>>
    /\ UNCHANGED <<shardsLookupTable, db, dbErr, dbOnceDone, dbOnceM, opens, connState>>
    /\ UNCHANGED <<tvars, mvars, nvars, svars>>

\* OnAll(): a new Querier over Values(), in the map's iteration order.
OnAll(p) ==
    /\ pc[p] = "idle"
    /\ \E ks \in KeysOrders : selectedShards' = [i \in DOMAIN ks |-> Get(ks[i])]
    /\ failFast' = FALSE
    /\ UNCHANGED <<qi, qErr, qTx, qDo, qStepErr, qLog>>
    /\ UNCHANGED <<tvars, rvars, mvars, nvars, svars>>

FailFast(p) ==
    /\ pc[p] = "idle"
    /\ failFast' = TRUE
    /\ UNCHANGED <<selectedShards, qi, qErr, qTx, qDo, qStepErr, qLog>>
    /\ UNCHANGED <<tvars, rvars, mvars, nvars, svars>>

\* Do: nothing to run on an empty selection, else doSequential.
Do(p) ==
    /\ pc[p] = "idle"
    /\ qi' = 1
    /\ qErr' = Nil
    /\ qTx' = [i \in DOMAIN selectedShards |-> "none"]
    /\ qDo' = [i \in DOMAIN selectedShards |-> NoDo]
    /\ qStepErr' = <<>>
    /\ qLog' = <<>>
    /\ local' = [local EXCEPT ![p] = NoLocal]
    /\ ret' = [ret EXCEPT ![p] = NoRet]
    /\ pc' = [pc EXCEPT ![p] = IF Len(selectedShards) = 0 THEN "doRet" ELSE "doOpen"]
    /\ UNCHANGED <<failFast, selectedShards>>
    /\ UNCHANGED <<shardsLookupTable, db, dbErr, dbOnceDone, dbOnceM, opens, connState>>
    /\ UNCHANGED <<tvars, mvars, nvars, svars>>

\* openTxForShardKey: resolve the connection with DB(shard.Key).
DoOpen(p) ==
    /\ pc[p] = "doOpen"
    /\ qLog' = QLogged("resolve", qi, "DB")
    /\ local' = [local EXCEPT ![p] = [NoLocal EXCEPT !.key = Key(selectedShards[qi]),
                                                     !.caller = "querier"]]
    /\ ret' = [ret EXCEPT ![p] = NoRet]
    /\ pc' = [pc EXCEPT ![p] = "dbGet"]
    /\ UNCHANGED <<failFast, selectedShards, qi, qErr, qTx, qDo, qStepErr>>
    /\ UNCHANGED <<shardsLookupTable, db, dbErr, dbOnceDone, dbOnceM, opens, connState>>
    /\ UNCHANGED <<tvars, mvars, nvars, svars>>

\* doInShard: the step ends when openTxForShardKey returned an error.
AfterBeginWhateverItReturned(ok) == "doUnit"

AfterBegin(ok) == IF ok THEN "doUnit" ELSE "doEnd"

\* openTxForShardKey: Begin on the connection, ErrFailedToOpenDB without one.
DoBegin(p) ==
    /\ pc[p] = "doBegin"
    /\ IF ret[p].db = NilDB
       THEN /\ qStepErr' = Append(qStepErr, ErrFailedToOpenDB)
            /\ qLog' = QLogged("db", qi, "nil")
            /\ pc' = [pc EXCEPT ![p] = "doEnd"]
            /\ UNCHANGED qTx
       ELSE \E ok \in BeginOutcomes(ret[p].db) :
            /\ qLog' = QLogged("begin", qi, Result(ok))
            /\ pc' = [pc EXCEPT ![p] = AfterBegin(ok)]
            /\ IF ok
               THEN /\ qTx' = [qTx EXCEPT ![qi] = "open"]
                    /\ qStepErr' = qStepErr
               ELSE /\ qStepErr' = Append(qStepErr, Leaf("begin", qi))
                    /\ qTx' = qTx
    /\ UNCHANGED <<failFast, selectedShards, qi, qErr, qDo>>
    /\ UNCHANGED <<shardsLookupTable, db, dbErr, dbOnceDone, dbOnceM, opens, connState,
                   local, ret>>
    /\ UNCHANGED <<tvars, mvars, nvars, svars>>

\* doInShard: what follows the unit of work.  (The earlier draft of the
\* function returned nil, without a rollback, when it asked for no commit.)
AfterUnitNoRollback(r) ==
    IF r.err # Nil THEN "doRollbackErr"
    ELSE IF ~r.commit THEN "doNoRollback"
    ELSE "doCommit"

AfterUnitRollingBackAfterAFailure(r) ==
    IF r.err # Nil THEN "doRollbackErr"
    ELSE IF ~r.commit \/ qErr # Nil THEN "doRollback"
    ELSE "doCommit"

AfterUnitFailureNoRollback(r) ==
    IF r.err # Nil THEN "doNoRollback"
    ELSE IF ~r.commit THEN "doRollback"
    ELSE "doCommit"

AfterUnit(r) ==
    IF r.err # Nil THEN "doRollbackErr"
    ELSE IF ~r.commit THEN "doRollback"
    ELSE "doCommit"

\* doInShard: run the unit of work on a clone of the shard and the transaction.
DoUnit(p) ==
    /\ pc[p] = "doUnit"
    /\ \E r \in DoResults(qi) :
        /\ qDo' = [qDo EXCEPT ![qi] = r]
        /\ qLog' = QLogged("do", qi, IF r.err # Nil THEN "fail" ELSE "ok")
        /\ IF AfterUnit(r) = "doNoRollback"
           THEN /\ qStepErr' = Append(qStepErr, Nil)
                /\ pc' = [pc EXCEPT ![p] = "doEnd"]
           ELSE /\ qStepErr' = qStepErr
                /\ pc' = [pc EXCEPT ![p] = AfterUnit(r)]
    /\ UNCHANGED <<failFast, selectedShards, qi, qErr, qTx>>
    /\ UNCHANGED <<shardsLookupTable, db, dbErr, dbOnceDone, dbOnceM, opens, connState,
                   local, ret>>
    /\ UNCHANGED <<tvars, mvars, nvars, svars>>

\* doInShard: what the step returns when the unit of work failed with err
\* and the rollback answered rollbackErr.
FailedUnitErrJoiningAlways(err, rollbackErr) == Join(<<err, rollbackErr>>)

FailedUnitErr(err, rollbackErr) ==
    IF ~isTxDoneErr(rollbackErr) THEN Join(<<err, rollbackErr>>) ELSE err

\* doInShard: the unit of work failed; roll back and return its error.
DoRollbackOnError(p) ==
    /\ pc[p] = "doRollbackErr"
    /\ \E out \in RollbackOutcomes :
        LET rollbackErr == RollbackErr(out, qi)
            err == qDo[qi].err
        IN
        /\ qLog' = QLogged("rollback", qi, out)
        /\ qTx' = [qTx EXCEPT ![qi] = RollbackState(out)]
        /\ qStepErr' = Append(qStepErr, FailedUnitErr(err, rollbackErr))
    /\ pc' = [pc EXCEPT ![p] = "doEnd"]
    /\ UNCHANGED <<failFast, selectedShards, qi, qErr, qDo>>
    /\ UNCHANGED <<shardsLookupTable, db, dbErr, dbOnceDone, dbOnceM, opens, connState,
                   local, ret>>
    /\ UNCHANGED <<tvars, mvars, nvars, svars>>

\* doInShard: no commit asked for; roll back.
DoRollback(p) ==
    /\ pc[p] = "doRollback"
    /\ \E out \in RollbackOutcomes :
        LET rollbackErr == RollbackErr(out, qi) IN
        /\ qLog' = QLogged("rollback", qi, out)
        /\ qTx' = [qTx EXCEPT ![qi] = RollbackState(out)]
        /\ qStepErr' = Append(qStepErr, IF ~isTxDoneErr(rollbackErr)
                                        THEN rollbackErr
                                        ELSE Nil)
    /\ pc' = [pc EXCEPT ![p] = "doEnd"]
    /\ UNCHANGED <<failFast, selectedShards, qi, qErr, qDo>>
    /\ UNCHANGED <<shardsLookupTable, db, dbErr, dbOnceDone, dbOnceM, opens, connState,
                   local, ret>>
    /\ UNCHANGED <<tvars, mvars, nvars, svars>>

\* doInShard: what the step returns when Commit answered commitErr.
CommitStepErrDropped(commitErr) == Nil

CommitStepErr(commitErr) ==
    IF ~isTxDoneErr(commitErr) THEN commitErr ELSE Nil

\* doInShard: commit.
DoCommit(p) ==
    /\ pc[p] = "doCommit"
    /\ \E out \in CommitOutcomes :
        LET commitErr == CommitErr(out, qi) IN
        /\ qLog' = QLogged("commit", qi, out)
        /\ qTx' = [qTx EXCEPT ![qi] = CommitState(out)]
        /\ qStepErr' = Append(qStepErr, CommitStepErr(commitErr))
    /\ pc' = [pc EXCEPT ![p] = "doEnd"]
    /\ UNCHANGED <<failFast, selectedShards, qi, qErr, qDo>>
    /\ UNCHANGED <<shardsLookupTable, db, dbErr, dbOnceDone, dbOnceM, opens, connState,
                   local, ret>>
    /\ UNCHANGED <<tvars, mvars, nvars, svars>>

\* doSequential: whether a failed shard ends the loop.
StopsNever(ff) == FALSE

Stops(ff) == ff

\* doSequential: the error kept when a shard failed and the loop goes on.
JoinedKeepingLast(err, key, innerErr) == Join(<<Wrap(key, innerErr)>>)

Joined(err, key, innerErr) == Join(<<err, Wrap(key, innerErr)>>)

\* doSequential: take doInShard's result, go on to the next shard or return.
DoSequential(p) ==
    /\ pc[p] = "doEnd"
    /\ LET innerErr == qStepErr[qi]
           err == IF innerErr # Nil
                  THEN Joined(qErr, Key(selectedShards[qi]), innerErr)
                  ELSE qErr
       IN IF innerErr # Nil /\ Stops(failFast)
          THEN /\ ret' = [ret EXCEPT ![p].err = innerErr]
               /\ pc' = [pc EXCEPT ![p] = "doRet"]
               /\ UNCHANGED <<qi, qErr>>
          ELSE /\ qErr' = err
               /\ IF qi < Len(selectedShards)
                  THEN /\ qi' = qi + 1
                       /\ pc' = [pc EXCEPT ![p] = "doOpen"]
                       /\ ret' = ret
                  ELSE /\ qi' = qi
                       /\ pc' = [pc EXCEPT ![p] = "doRet"]
                       /\ ret' = [ret EXCEPT ![p].err = err]
    /\ UNCHANGED <<failFast, selectedShards, qTx, qDo, qStepErr, qLog>>
    /\ UNCHANGED <<shardsLookupTable, db, dbErr, dbOnceDone, dbOnceM, opens, connState,
                   local>>
    /\ UNCHANGED <<tvars, mvars, nvars, svars>>

\* The caller has Do's result; the run is over.
DoReturn(p) ==
    /\ pc[p] = "doRet"
    /\ pc' = [pc EXCEPT ![p] = "idle"]
    /\ local' = [local EXCEPT ![p] = NoLocal]
    /\ ret' = [ret EXCEPT ![p] = NoRet]
    /\ qi' = 0
    /\ qErr' = Nil
    /\ qTx' = <<>>
    /\ qDo' = <<>>
    /\ qStepErr' = <<>>
    /\ qLog' = <<>>
    /\ UNCHANGED <<failFast, selectedShards>>
    /\ UNCHANGED <<shardsLookupTable, db, dbErr, dbOnceDone, dbOnceM, opens, connState>>
    /\ UNCHANGED <<tvars, mvars, nvars, svars>>

QNext(p) ==
    \/ \E keys \in SeqsUpTo(Keys, MaxSelect) : On(p, keys)
    \/ OnAll(p)
    \/ FailFast(p)
    \/ Do(p)
    \/ DoOpen(p)
    \/ DoBegin(p)
    \/ DoUnit(p)
    \/ DoRollbackOnError(p)
    \/ DoRollback(p)
    \/ DoCommit(p)
    \/ DoSequential(p)
    \/ DoReturn(p)

QInit ==
    /\ failFast = FALSE
    /\ selectedShards = <<>>
    /\ qi = 0
    /\ qErr = Nil
    /\ qTx = <<>>
    /\ qDo = <<>>
    /\ qStepErr = <<>>
    /\ qLog = <<>>

\* Goroutines calling Register, DB and CloseAll concurrently, with the two
\* Shard objects that share a key.
SameKeyObjs == {o \in Objs : Key(o) = Key(1)}

RegistryNext == \E p \in Procs : RNext(p, SameKeyObjs)

-----------------------------------------------------------------------------
(***************************************************************************)
(* NewSqlQuerier and SqlQuerier.Close                                      *)
(***************************************************************************)
MaxSqlShards == 2

\* SqlQuerierConfig: a strategy and up to MaxSqlShards shards with distinct
\* keys, each with up to MaxReplicas replicas.
Configs ==
    [ReplicationStrategy : Strategies,
     Shards : UNION {[1..n -> 0..MaxReplicas] : n \in 0..MaxSqlShards}]

NoConfig == [ReplicationStrategy |-> ReplicateNone, Shards |-> <<>>]

\* The connections a call can open: owner 0 is the shard, 1..n its replicas.
SqlDBs == (1..MaxSqlShards) \X (0..MaxReplicas)

NInit ==
    /\ npc = "idle"
    /\ config = NoConfig
    /\ ni = 0
    /\ nj = 0
    /\ querierShards = {}
    /\ sqlDB = [c \in SqlDBs |-> "unopened"]
    /\ nRet = "none"

\* newSqlQuerierShard opens the replicas only under these strategies.
OpensReplicas(strategy) == strategy \in {ReplicateAll, ReplicateSome}

\* The connections SqlQuerier.Close calls Close on: the connection of every
\* shard of the map and every replica connection of it that is not nil.
ClosedByClose(shards) ==
    {c \in SqlDBs : c[1] \in shards /\ sqlDB[c] # "unopened"}

\* SqlQuerier.Close, the connections in failed answering an error.
Close(shards, failed) ==
    [c \in SqlDBs |->
        IF c \in ClosedByClose(shards) /\ sqlDB[c] = "open"
        THEN IF c \in failed THEN "closeFailed" ELSE "closed"
        ELSE sqlDB[c]]

NewSqlQuerier(cfg) ==
    /\ npc = "idle"
    /\ config' = cfg
    /\ querierShards' = {}
    /\ ni' = 1
    /\ nj' = 0
    /\ IF cfg.Shards = <<>>
       THEN npc' = "done" /\ nRet' = "ok"
       ELSE npc' = "openShard" /\ nRet' = "none"
    /\ UNCHANGED sqlDB
    /\ UNCHANGED <<tvars, rvars, qvars, mvars, svars>>

\* db, err := sql.Open(shard.Driver, shard.DSN)
OpenShard ==
    /\ npc = "openShard"
    /\ \E ok \in BOOLEAN :
        IF ok
        THEN /\ sqlDB' = [sqlDB EXCEPT ![<<ni, 0>>] = "open"]
             /\ nj' = 1
             /\ npc' = IF OpensReplicas(config.ReplicationStrategy)
                          /\ config.Shards[ni] > 0
                       THEN "openReplica" ELSE "set"
        ELSE /\ npc' = "close"
             /\ UNCHANGED <<sqlDB, nj>>
    /\ UNCHANGED <<config, ni, querierShards, nRet>>
    /\ UNCHANGED <<tvars, rvars, qvars, mvars, svars>>

\* replicaDB, err := sql.Open(replica.Driver, replica.DSN)
OpenReplica ==
    /\ npc = "openReplica"
    /\ \E ok \in BOOLEAN :
        IF ok
        THEN /\ sqlDB' = [sqlDB EXCEPT ![<<ni, nj>>] = "open"]
             /\ nj' = nj + 1
             /\ npc' = IF nj < config.Shards[ni] THEN "openReplica" ELSE "set"
        ELSE /\ npc' = "close"
             /\ UNCHANGED <<sqlDB, nj>>
    /\ UNCHANGED <<config, ni, querierShards, nRet>>
    /\ UNCHANGED <<tvars, rvars, qvars, mvars, svars>>

\* sqlQuerier.shards.Set(querierShard.key, querierShard)
SetShard ==
    /\ npc = "set"
    /\ querierShards' = querierShards \cup {ni}
    /\ ni' = ni + 1
    /\ nj' = 0
    /\ IF ni < Len(config.Shards)
       THEN npc' = "openShard" /\ nRet' = "none"
       ELSE npc' = "done" /\ nRet' = "ok"
    /\ UNCHANGED <<config, sqlDB>>
    /\ UNCHANGED <<tvars, rvars, qvars, mvars, svars>>

\* if err != nil { sqlQuerier.Close(); return nil, err }
CloseOnError ==
    /\ npc = "close"
    /\ \E failed \in SUBSET ClosedByClose(querierShards) :
        sqlDB' = Close(querierShards, failed)
    /\ npc' = "done"
    /\ nRet' = "err"
    /\ UNCHANGED <<config, ni, nj, querierShards>>
    /\ UNCHANGED <<tvars, rvars, qvars, mvars, svars>>

\* The caller closes the SqlQuerier it was given.
SqlQuerierClose ==
    /\ npc = "done"
    /\ nRet = "ok"
    /\ \E failed \in SUBSET ClosedByClose(querierShards) :
        sqlDB' = Close(querierShards, failed)
    /\ npc' = "closed"
    /\ UNCHANGED <<config, ni, nj, querierShards, nRet>>
    /\ UNCHANGED <<tvars, rvars, qvars, mvars, svars>>

NNext ==
    \/ \E cfg \in Configs : NewSqlQuerier(cfg)
    \/ OpenShard
    \/ OpenReplica
    \/ SetShard
    \/ CloseOnError
    \/ SqlQuerierClose

-----------------------------------------------------------------------------
(***************************************************************************)
(* shards.go: Register, CloseAll, DB, On, OnAll and Lookup over _shards.   *)
(* A call on a nil *SafeMap dereferences nil when it takes the map's lock: *)
(* the goroutine panics.                                                   *)
(***************************************************************************)
NilMap == 0

ShardKeys == {"a", "b"}

\* The key goroutine p registers when the goroutines use distinct keys.
OwnKey(p) == IF p = 1 THEN "a" ELSE "b"

\* The n-th connection opened by goroutine p is <<p, n>>.
DBs == Procs \X (1..MaxOpens)

ErrShardNotFound == Leaf("shard not found", 0)

NoEntries == [k \in ShardKeys |-> NilDB]

GNoLocal == [key |-> "", keys |-> <<>>, db |-> NilDB]

GNoRet == [err |-> Nil, db |-> NilDB, errs |-> <<>>, shards |-> {}, called |-> FALSE]

SInit ==
    /\ _shards = NilMap
    /\ shardsData = [m \in Procs |-> NoEntries]
    /\ dbState = [h \in DBs |-> "unopened"]
    /\ gOpens = [p \in Procs |-> 0]
    /\ gpc = [p \in Procs |-> "idle"]
    /\ glocal = [p \in Procs |-> GNoLocal]
    /\ gret = [p \in Procs |-> GNoRet]

\* The keys of SafeMap object m.
KeysOf(m) == {k \in ShardKeys : shardsData[m][k] # NilDB}

\* SafeMap.Keys: the keys in any order.
KeysOrdersOf(m) ==
    {ks \in [1..Cardinality(KeysOf(m)) -> KeysOf(m)] :
        \A i, j \in DOMAIN ks : i # j => ks[i] # ks[j]}

\* sql.DB.Close can fail the first time and answers nil on a closed DB.
DBCloseOutcomes(h) == IF dbState[h] = "open" THEN {"ok", "fail"} ELSE {"ok"}

DBClose(h, out) ==
    IF dbState[h] = "open"
    THEN [dbState EXCEPT ![h] = IF out = "ok" THEN "closed" ELSE "closeFailed"]
    ELSE dbState

\* sql.DB.Begin fails on a closed DB.
DBBeginOutcomes(h) == IF dbState[h] = "open" THEN BOOLEAN ELSE {FALSE}

isErrTxDone(err) == err # Nil /\ ErrorsIs(err, ErrTxDone)

(* Register, given one shard *)
Register(p, key) ==
    /\ gpc[p] = "idle"
    /\ gpc' = [gpc EXCEPT ![p] = "regNil"]
    /\ glocal' = [glocal EXCEPT ![p] = [GNoLocal EXCEPT !.key = key]]
    /\ gret' = [gret EXCEPT ![p] = GNoRet]
    /\ UNCHANGED <<_shards, shardsData, dbState, gOpens>>
    /\ UNCHANGED <<tvars, rvars, qvars, mvars, nvars>>

\* if _shards == nil
registerShardNil(p) ==
    /\ gpc[p] = "regNil"
    /\ gpc' = [gpc EXCEPT ![p] = IF _shards = NilMap THEN "regNew" ELSE "regGet"]
    /\ UNCHANGED <<_shards, shardsData, dbState, gOpens, glocal, gret>>
    /\ UNCHANGED <<tvars, rvars, qvars, mvars, nvars>>

\* _shards = NewSafeMap[string, *Shard]()
registerShardNew(p) ==
    /\ gpc[p] = "regNew"
    /\ _shards' = p
    /\ shardsData' = [shardsData EXCEPT ![p] = NoEntries]
    /\ gpc' = [gpc EXCEPT ![p] = "regConnect"]
    /\ UNCHANGED <<dbState, gOpens, glocal, gret>>
    /\ UNCHANGED <<tvars, rvars, qvars, mvars, nvars>>

\* oldShard, exists := _shards.Get(shard.Key)
registerShardGet(p) ==
    /\ gpc[p] = "regGet"
    /\ LET old == shardsData[_shards][glocal[p].key]
       IN  /\ glocal' = [glocal EXCEPT ![p].db = old]
           /\ gpc' = [gpc EXCEPT ![p] = IF old # NilDB THEN "regClose" ELSE "regConnect"]
    /\ UNCHANGED <<_shards, shardsData, dbState, gOpens, gret>>
    /\ UNCHANGED <<tvars, rvars, qvars, mvars, nvars>>

\* if err := oldShard._db.Close(); err != nil { return err }
registerShardClose(p) ==
    /\ gpc[p] = "regClose"
    /\ \E out \in DBCloseOutcomes(glocal[p].db) :
        /\ dbState' = DBClose(glocal[p].db, out)
        /\ IF out = "ok"
           THEN /\ gpc' = [gpc EXCEPT ![p] = "regConnect"]
                /\ UNCHANGED gret
           ELSE /\ gpc' = [gpc EXCEPT ![p] = "regRet"]
                /\ gret' = [gret EXCEPT ![p].err = Leaf("close", p)]
    /\ UNCHANGED <<_shards, shardsData, gOpens, glocal>>
    /\ UNCHANGED <<tvars, rvars, qvars, mvars, nvars>>

\* db, err := connectToDatabase(shard)
registerShardConnect(p) ==
    /\ gpc[p] = "regConnect"
    /\ gOpens[p] < MaxOpens
    /\ \E ok \in BOOLEAN :
        IF ok
        THEN /\ gOpens' = [gOpens EXCEPT ![p] = @ + 1]
             /\ dbState' = [dbState EXCEPT ![<<p, gOpens[p] + 1>>] = "open"]
             /\ glocal' = [glocal EXCEPT ![p].db = <<p, gOpens[p] + 1>>]
             /\ gpc' = [gpc EXCEPT ![p] = "regSet"]
             /\ UNCHANGED gret
        ELSE /\ gpc' = [gpc EXCEPT ![p] = "regRet"]
             /\ gret' = [gret EXCEPT ![p].err = Leaf("open", p)]
             /\ UNCHANGED <<gOpens, dbState, glocal>>
    /\ UNCHANGED <<_shards, shardsData>>
    /\ UNCHANGED <<tvars, rvars, qvars, mvars, nvars>>

\* _shards.Set(shard.Key, &Shard{..., _db: db}), on the map _shards holds now
registerShardSet(p) ==
    /\ gpc[p] = "regSet"
    /\ shardsData' = [shardsData EXCEPT ![_shards][glocal[p].key] = glocal[p].db]
    /\ gpc' = [gpc EXCEPT ![p] = "regRet"]
    /\ UNCHANGED <<_shards, dbState, gOpens, glocal, gret>>
    /\ UNCHANGED <<tvars, rvars, qvars, mvars, nvars>>

(* CloseAll *)
\* for _, key := range _shards.Keys()
CloseAll(p) ==
    /\ gpc[p] = "idle"
    /\ gret' = [gret EXCEPT ![p] = GNoRet]
    /\ IF _shards = NilMap
       THEN /\ gpc' = [gpc EXCEPT ![p] = "panic"]
            /\ glocal' = [glocal EXCEPT ![p] = GNoLocal]
       ELSE /\ gpc' = [gpc EXCEPT ![p] = "caLoop"]
            /\ \E keys \in KeysOrdersOf(_shards) :
                glocal' = [glocal EXCEPT ![p] = [GNoLocal EXCEPT !.keys = keys]]
    /\ UNCHANGED <<_shards, shardsData, dbState, gOpens>>
    /\ UNCHANGED <<tvars, rvars, qvars, mvars, nvars>>

\* closeShard(key) for the next key: the entry's connection is closed
\* and, unless Close failed, the entry is deleted.
closeShard(p) ==
    /\ gpc[p] = "caLoop"
    /\ glocal[p].keys # <<>>
    /\ LET key == Head(glocal[p].keys)
           h == shardsData[_shards][key]
       IN  IF h = NilDB
           THEN UNCHANGED <<shardsData, dbState, gret>>
           ELSE \E out \in DBCloseOutcomes(h) :
                /\ dbState' = DBClose(h, out)
                /\ IF out = "ok"
                   THEN /\ shardsData' = [shardsData EXCEPT ![_shards][key] = NilDB]
                        /\ UNCHANGED gret
                   ELSE /\ gret' = [gret EXCEPT ![p].errs = Append(@, Leaf("close", p))]
                        /\ UNCHANGED shardsData
    /\ glocal' = [glocal EXCEPT ![p].keys = Tail(@)]
    /\ UNCHANGED <<_shards, gOpens, gpc>>
    /\ UNCHANGED <<tvars, rvars, qvars, mvars, nvars>>

\* return errs
CloseAllDone(p) ==
    /\ gpc[p] = "caLoop"
    /\ glocal[p].keys = <<>>
    /\ gpc' = [gpc EXCEPT ![p] = "caRet"]
    /\ UNCHANGED <<_shards, shardsData, dbState, gOpens, glocal, gret>>
    /\ UNCHANGED <<tvars, rvars, qvars, mvars, nvars>>

(* DB.  registerShard stores an entry only with the connection it opened, *)
(* so the entry DB finds never has a nil _db.                             *)
DB(p, key) ==
    /\ gpc[p] = "idle"
    /\ gpc' = [gpc EXCEPT ![p] = "dbRet"]
    /\ glocal' = [glocal EXCEPT ![p] = [GNoLocal EXCEPT !.key = key]]
    /\ gret' = [gret EXCEPT ![p] =
            [GNoRet EXCEPT !.db = IF _shards = NilMap THEN NilDB
                                  ELSE shardsData[_shards][key]]]
    /\ UNCHANGED <<_shards, shardsData, dbState, gOpens>>
    /\ UNCHANGED <<tvars, rvars, qvars, mvars, nvars>>

(* On *)
\* What On returns on a registry that exists, and whether it called do:
\* begin is the outcome of db.Begin, r what do returns, commit the
\* outcome of tx.Commit.
OnResult(key, begin, r, commit) ==
    LET h == shardsData[_shards][key]
    IN  IF h = NilDB THEN [err |-> ErrShardNotFound, called |-> FALSE]
        ELSE IF ~begin THEN [err |-> Leaf("begin", 0), called |-> FALSE]
        ELSE IF r.err # Nil THEN [err |-> r.err, called |-> TRUE]
        ELSE IF r.commit /\ ~isErrTxDone(CommitErr(commit, 0))
             THEN [err |-> CommitErr(commit, 0), called |-> TRUE]
        ELSE [err |-> Nil, called |-> TRUE]

\* The outcomes the driver and the unit of work can give to On(key, do).
OnResults(key) ==
    LET h == shardsData[_shards][key]
    IN  {OnResult(key, begin, r, commit) :
            begin \in (IF h = NilDB THEN {FALSE} ELSE DBBeginOutcomes(h)),
            r \in DoResults(0), commit \in CommitOutcomes}

PkgOn(p, key) ==
    /\ gpc[p] = "idle"
    /\ glocal' = [glocal EXCEPT ![p] = [GNoLocal EXCEPT !.key = key]]
    /\ IF _shards = NilMap
       THEN /\ gpc' = [gpc EXCEPT ![p] = "panic"]
            /\ gret' = [gret EXCEPT ![p] = GNoRet]
       ELSE /\ gpc' = [gpc EXCEPT ![p] = "onRet"]
            /\ \E res \in OnResults(key) :
                gret' = [gret EXCEPT ![p] =
                    [GNoRet EXCEPT !.err = res.err, !.called = res.called]]
    /\ UNCHANGED <<_shards, shardsData, dbState, gOpens>>
    /\ UNCHANGED <<tvars, rvars, qvars, mvars, nvars>>

(* OnAll *)
\* for _, key := range _shards.Keys()
PkgOnAll(p) ==
    /\ gpc[p] = "idle"
    /\ gret' = [gret EXCEPT ![p] = GNoRet]
    /\ IF _shards = NilMap
       THEN /\ gpc' = [gpc EXCEPT ![p] = "panic"]
            /\ glocal' = [glocal EXCEPT ![p] = GNoLocal]
       ELSE /\ gpc' = [gpc EXCEPT ![p] = "oaLoop"]
            /\ \E keys \in KeysOrdersOf(_shards) :
                glocal' = [glocal EXCEPT ![p] = [GNoLocal EXCEPT !.keys = keys]]
    /\ UNCHANGED <<_shards, shardsData, dbState, gOpens>>
    /\ UNCHANGED <<tvars, rvars, qvars, mvars, nvars>>

\* if err := On(key, do); err != nil { return err }
PkgOnAllShard(p) ==
    /\ gpc[p] = "oaLoop"
    /\ glocal[p].keys # <<>>
    /\ \E res \in OnResults(Head(glocal[p].keys)) :
        /\ gret' = [gret EXCEPT ![p].err = res.err,
                                ![p].called = @ \/ res.called]
        /\ gpc' = [gpc EXCEPT ![p] = IF res.err # Nil THEN "oaRet" ELSE "oaLoop"]
    /\ glocal' = [glocal EXCEPT ![p].keys = Tail(@)]
    /\ UNCHANGED <<_shards, shardsData, dbState, gOpens>>
    /\ UNCHANGED <<tvars, rvars, qvars, mvars, nvars>>

\* return nil
PkgOnAllDone(p) ==
    /\ gpc[p] = "oaLoop"
    /\ glocal[p].keys = <<>>
    /\ gpc' = [gpc EXCEPT ![p] = "oaRet"]
    /\ UNCHANGED <<_shards, shardsData, dbState, gOpens, glocal, gret>>
    /\ UNCHANGED <<tvars, rvars, qvars, mvars, nvars>>

(* Lookup *)
Lookup(p) ==
    /\ gpc[p] = "idle"
    /\ gpc' = [gpc EXCEPT ![p] = "luRet"]
    /\ glocal' = [glocal EXCEPT ![p] = GNoLocal]
    /\ gret' = [gret EXCEPT ![p] =
            [GNoRet EXCEPT !.shards = IF _shards = NilMap THEN {}
                                      ELSE KeysOf(_shards)]]
    /\ UNCHANGED <<_shards, shardsData, dbState, gOpens>>
    /\ UNCHANGED <<tvars, rvars, qvars, mvars, nvars>>

\* The call is over; what it returned stays until the goroutine's next call.
GReturn(p) ==
    /\ gpc[p] \in {"regRet", "caRet", "dbRet", "onRet", "oaRet", "luRet"}
    /\ gpc' = [gpc EXCEPT ![p] = "idle"]
    /\ glocal' = [glocal EXCEPT ![p] = [GNoLocal EXCEPT !.key = glocal[p].key]]
    /\ UNCHANGED <<_shards, shardsData, dbState, gOpens, gret>>
    /\ UNCHANGED <<tvars, rvars, qvars, mvars, nvars>>

\* Register calls of goroutine p with the keys of keys.
GRegisterNext(p, keys) ==
    \/ \E key \in keys : Register(p, key)
    \/ registerShardNil(p)
    \/ registerShardNew(p)
    \/ registerShardGet(p)
    \/ registerShardClose(p)
    \/ registerShardConnect(p)
    \/ registerShardSet(p)
    \/ GReturn(p)

\* The other calls of the package.
GCallsNext(p) ==
    \/ CloseAll(p)
    \/ closeShard(p)
    \/ CloseAllDone(p)
    \/ \E key \in ShardKeys : DB(p, key)
    \/ \E key \in ShardKeys : PkgOn(p, key)
    \/ PkgOnAll(p)
    \/ PkgOnAllShard(p)
    \/ PkgOnAllDone(p)
    \/ Lookup(p)

\* Goroutines registering shards at the same time, each its own key.
ConcurrentRegisterNext == \E p \in Procs : GRegisterNext(p, {OwnKey(p)})

\* One goroutine making every call of shards.go.
PackageNext == GRegisterNext(1, ShardKeys) \/ GCallsNext(1)

\* One goroutine calling Register, DB and CloseAll with every Shard object.
LifecycleNext == RNext(1, Objs)

\* One goroutine using the whole package, the registry and the Querier,
\* with one Shard object for each key.
OnePerKey == {o \in Objs : \A o2 \in Objs : Key(o2) = Key(o) => o <= o2}

QuerierNext == RNext(1, OnePerKey) \/ QNext(1)

-----------------------------------------------------------------------------
(***************************************************************************)
(* Specifications                                                          *)
(***************************************************************************)
\* A SqlQuerier no Transact call is made on.
TUnused ==
    /\ TInit
    /\ replicationStrategy = ReplicateAll
    /\ sqShards = [k \in {SqShardKey} |-> 0]

\* The state after construction: a SqlQuerier of any strategy and replica
\* count, an empty registry, no Querier.
InitTransact == TInit /\ RInit /\ QInit /\ MInit /\ NInit /\ SInit

\* The same with the SqlQuerier left aside.
InitRegistry == TUnused /\ RInit /\ QInit /\ MInit /\ NInit /\ SInit

\* Transact calls on a SqlQuerier built with any strategy and replica count.
SpecTransact == InitTransact /\ [][TNext]_vars

\* One goroutine registering shards, resolving connections, closing them
\* and running Queriers.
SpecQuerier == InitRegistry /\ [][QuerierNext]_vars

\* One goroutine registering, resolving and closing shards, two of which
\* share a key.
SpecLifecycle == InitRegistry /\ [][LifecycleNext]_vars

\* Concurrent Register, DB and CloseAll calls on the registry.
SpecRegistry == InitRegistry /\ [][RegistryNext]_vars

\* Concurrent calls on one SafeMap, and writes to the copies taken of it.
SpecSafeMap == InitRegistry /\ [][MNext]_vars

\* NewSqlQuerier called with any configuration, and the Close that follows
\* a successful call.
SpecNewSqlQuerier == InitRegistry /\ [][NNext]_vars

\* Concurrent Register calls of shards.go, from the first one of the process.
SpecConcurrentRegister == InitRegistry /\ [][ConcurrentRegisterNext]_vars

\* One goroutine using the registry of shards.go.
SpecPackage == InitRegistry /\ [][PackageNext]_vars

-----------------------------------------------------------------------------
(***************************************************************************)
(* Properties of the registry                                              *)
(***************************************************************************)
\* A DB call of goroutine p has returned, and it found an entry.
DBReturned(p) == pc[p] = "dbRet" /\ local[p].shard # NoShard

\* C5: for one registry entry, under concurrent and repeated DB calls,
\* sql.Open is called at most once; a caller returns only once that one
\* call is over, and every caller gets the same outcome: the handle that
\* call made, or no connection when it failed.
C5_OpenedOnceSameOutcome ==
    /\ \A o \in Objs : opens[o] <= 1
    /\ \A p \in Procs : DBReturned(p) =>
        LET o == local[p].shard IN
        /\ opens[o] = 1 /\ dbOnceDone[o]
        /\ ret[p].db = IF dbErr[o] = Nil THEN <<o, 1>> ELSE NilDB
    /\ \A p, q \in Procs :
        (DBReturned(p) /\ DBReturned(q) /\ local[p].shard = local[q].shard)
            => ret[p].db = ret[q].db

C5_Witness ==
    /\ DBReturned(1) /\ DBReturned(2)
    /\ local[1].shard = local[2].shard
    /\ ret[1].db # NilDB
    /\ ret[2].db = ret[1].db

\* Goroutine p is in registerShard.
InRegister(p) == pc[p] \in {"regGet", "regClose", "regSet", "regRet"}

\* The entry registerShard found under the key had a connection.
OldHadConnection(p) ==
    local[p].oldShard # NoShard /\ db[local[p].oldShard] # NilDB

\* C6: when Register is given a shard whose key is registered, Close has
\* been called on the connection of the entry found there (if it has one)
\* by the time the new entry is installed, and once Register has returned
\* nil the key maps to the new entry.
C6_OldClosedBeforeInstall ==
    \A p \in Procs :
        /\ (pc[p] = "regSet" /\ OldHadConnection(p))
                => connState[db[local[p].oldShard]] # "open"
        /\ (pc[p] = "regRet" /\ ret[p].err = Nil /\ local[p].shard # NoShard)
                => /\ Get(Key(local[p].shard)) = local[p].shard
                   /\ OldHadConnection(p) => connState[db[local[p].oldShard]] # "open"

C6_Witness ==
    /\ pc[1] = "regRet"
    /\ ret[1].err = Nil
    /\ OldHadConnection(1)
    /\ local[1].oldShard # local[1].shard
    /\ connState[db[local[1].oldShard]] = "closed"
    /\ Get(Key(local[1].shard)) = local[1].shard

\* C7: when Register is given a registered key and closing the connection
\* of the entry found there fails, Register returns that close error and
\* does not install the new entry: the key still maps to the entry found.
C7_CloseFailureKeepsOldEntry ==
    \A p \in Procs :
        (InRegister(p) /\ local[p].closeErr # Nil)
            => /\ pc[p] = "regRet"
               /\ ret[p].err = local[p].closeErr
               /\ Get(Key(local[p].shard)) = local[p].oldShard

C7_Witness ==
    /\ pc[1] = "regRet"
    /\ local[1].closeErr # Nil
    /\ local[1].oldShard # local[1].shard
    /\ Get(Key(local[1].shard)) = local[1].oldShard

-----------------------------------------------------------------------------
(***************************************************************************)
(* Properties of the Querier                                               *)
(***************************************************************************)
\* Do has returned to goroutine 1.
DoReturned == pc[1] = "doRet"

QCalled(op, i) == \E n \in 1..Len(qLog) : qLog[n][1] = op /\ qLog[n][2] = i

\* The positions whose connection was resolved, in the order of the calls.
Attempts ==
    LET resolves == SelectSeq(qLog, LAMBDA e : e[1] = "resolve")
    IN  [n \in DOMAIN resolves |-> resolves[n][2]]

\* The entries of the combined error: each failed shard's error under its key.
RECURSIVE FailedEntries(_)
FailedEntries(n) ==
    IF n = 0 THEN <<>>
    ELSE IF qStepErr[n] # Nil
         THEN Append(FailedEntries(n - 1), Wrap(Key(selectedShards[n]), qStepErr[n]))
         ELSE FailedEntries(n - 1)

\* C8: without fail-fast, Do attempts every selected shard exactly once, in
\* selection order, whatever failed before; it returns nil exactly when no
\* shard step failed, and otherwise one combined error with one entry per
\* failed shard, each tagged with that shard's key.
C8_AllAttemptedErrorsCombined ==
    (DoReturned /\ ~failFast) =>
        /\ Attempts = [n \in 1..Len(selectedShards) |-> n]
        /\ Len(qStepErr) = Len(selectedShards)
        /\ ret[1].err = Nil <=> \A n \in DOMAIN qStepErr : qStepErr[n] = Nil
        /\ ret[1].err # Nil => ret[1].err.kind = "join"
        /\ Entries(ret[1].err) = FailedEntries(Len(qStepErr))

C8_Witness ==
    /\ DoReturned /\ ~failFast
    /\ Len(selectedShards) = 2
    /\ qStepErr[1] # Nil /\ qStepErr[2] # Nil
    /\ Len(Entries(ret[1].err)) = 2

\* The first position whose step failed.
FirstFailed == CHOOSE k \in DOMAIN qStepErr :
                  qStepErr[k] # Nil /\ \A n \in 1..(k - 1) : qStepErr[n] = Nil

SomeStepFailed == \E k \in DOMAIN qStepErr : qStepErr[k] # Nil

\* C9: with fail-fast, when the shard at position k is the first to fail, no
\* connection is resolved, no transaction begun and no unit of work invoked
\* for a shard after k, and Do returns that shard's error as it is.
C9_FailFastStopsAtFirstFailure ==
    (DoReturned /\ failFast /\ SomeStepFailed) =>
        /\ \A n \in 1..Len(qLog) : qLog[n][2] <= FirstFailed
        /\ \A i \in DOMAIN selectedShards :
                i > FirstFailed => qTx[i] = "none" /\ ~qDo[i].called
        /\ Len(qStepErr) = FirstFailed
        /\ ret[1].err = qStepErr[FirstFailed]

C9_Witness ==
    /\ DoReturned /\ failFast
    /\ Len(selectedShards) = 2
    /\ qDo[1].err # Nil
    /\ qStepErr[1] # Nil
    /\ Attempts = <<1>>

\* The step of position i is over and its unit of work returned (false, nil).
NoCommitAsked(i) ==
    /\ i <= Len(qStepErr)
    /\ qDo[i].called /\ qDo[i].err = Nil /\ ~qDo[i].commit

StepOver(i) == pc[1] \in {"doEnd", "doOpen", "doRet"} /\ i <= Len(qStepErr)

\* The step of position i is over and its unit of work returned an error.
UnitFailed(i) == StepOver(i) /\ qDo[i].called /\ qDo[i].err # Nil

\* C11: when the unit of work of a shard returns an error, Rollback is
\* called on the shard's transaction and Commit never is, and the step fails
\* with an error that contains the unit of work's error; when Rollback
\* answers that the transaction is already finished, that answer is left out
\* and the step's error is the unit of work's error itself.
C11_FailedUnitRollsBack ==
    \A i \in DOMAIN selectedShards :
        UnitFailed(i) =>
            /\ QCalled("rollback", i) /\ ~QCalled("commit", i)
            /\ qTx[i] \notin {"open", "committed"}
            /\ qStepErr[i] # Nil /\ ErrorsIs(qStepErr[i], qDo[i].err)
            /\ qTx[i] = "finished" =>
                    /\ qStepErr[i] = qDo[i].err
                    /\ ~ErrorsIs(qStepErr[i], ErrTxDone)
            /\ qTx[i] = "rollbackFailed" => ErrorsIs(qStepErr[i], Leaf("rollback", i))

C11_Witness ==
    /\ DoReturned
    /\ Len(selectedShards) = 2
    /\ UnitFailed(1) /\ UnitFailed(2)
    /\ qTx[1] = "finished" /\ qTx[2] = "rollbackFailed"
    /\ qStepErr[1] = qDo[1].err

\* The step of position i is over and its unit of work returned (true, nil).
CommitAsked(i) ==
    StepOver(i) /\ qDo[i].called /\ qDo[i].err = Nil /\ qDo[i].commit

\* The error the Commit call of position i returned.
CommitReturned(i) ==
    IF qTx[i] = "commitFailed" THEN Leaf("commit", i)
    ELSE IF qTx[i] = "finished" THEN ErrTxDone
    ELSE Nil

\* Do's result carries the error of the failed step i as the policy says:
\* alone with fail-fast, as an entry under the shard's key without.
Propagated(i) ==
    IF failFast
    THEN ret[1].err = qStepErr[i]
    ELSE \E n \in DOMAIN Entries(ret[1].err) :
            Entries(ret[1].err)[n] = Wrap(Key(selectedShards[i]), qStepErr[i])

CloseAllReturned(p) == pc[p] = "caRet"

\* The errors of the failed close calls of p's CloseAll, in call order.
RECURSIVE CloseFailures(_)
CloseFailures(calls) ==
    IF calls = <<>> THEN <<>>
    ELSE LET c == calls[Len(calls)]
             before == CloseFailures(SubSeq(calls, 1, Len(calls) - 1))
         IN  IF c[2] = "ok" THEN before ELSE Append(before, CloseErr(c[1], c[2]))

\* C13: CloseAll calls close on every entry registered when it starts,
\* once each, whatever the earlier closes answered, and returns exactly the
\* errors of the closes that failed, one per such entry (none when no close
\* failed).
C13_CloseAllClosesEveryEntry ==
    \A p \in Procs : CloseAllReturned(p) =>
        LET calls == local[p].closeCalls IN
        /\ {calls[n][1] : n \in DOMAIN calls} = local[p].startEntries
        /\ Len(calls) = Cardinality(local[p].startEntries)
        /\ ret[p].errs = CloseFailures(calls)

C13_Witness ==
    /\ CloseAllReturned(1)
    /\ Len(local[1].closeCalls) = 2
    /\ local[1].closeCalls[1][2] = "fail"
    /\ local[1].closeCalls[2][2] = "ok"
    /\ Len(ret[1].errs) = 1

\* C14: once CloseAll has returned, no entry registered when it started is
\* in the registry any more, the entries whose close failed included.
C14_CloseAllRemovesEveryEntry ==
    \A p \in Procs : CloseAllReturned(p) =>
        \A o \in local[p].startEntries : Get(Key(o)) = NoShard

(* Properties of On *)
\* On has returned to goroutine 1; local[1].keys are the keys it was given.
OnReturned == pc[1] = "onRet"

\* The positions of the registered keys among keys.
RegisteredAt(keys) == {j \in DOMAIN keys : Get(keys[j]) # NoShard}

\* The i-th smallest of a set of positions.
Nth(S, i) == CHOOSE j \in S : Cardinality({x \in S : x <= j}) = i

UnitDone(i) == StepOver(i) /\ qDo[i].called

\* C23: without fail-fast, how a shard's transaction ends follows from its
\* own unit of work and its own Commit or Rollback alone, whatever happens
\* to the other shards: after (true, nil) Commit is called on it and
\* Rollback never, otherwise Rollback is called and Commit never; and a
\* transaction that is committed stays committed to the end of the call.
C23_ShardOutcomesIndependent ==
    /\ [](~failFast =>
            \A i \in DOMAIN selectedShards : UnitDone(i) =>
                IF qDo[i].err = Nil /\ qDo[i].commit
                THEN /\ QCalled("commit", i) /\ ~QCalled("rollback", i)
                     /\ qTx[i] \in {"committed", "finished", "commitFailed"}
                ELSE /\ QCalled("rollback", i) /\ ~QCalled("commit", i)
                     /\ qTx[i] \in {"rolledback", "finished", "rollbackFailed"})
    /\ [][\A i \in DOMAIN qTx :
            (qTx[i] = "committed" /\ ~DoReturned) => qTx'[i] = "committed"]_vars

C23_Witness ==
    /\ DoReturned /\ ~failFast
    /\ Len(selectedShards) = 2
    /\ UnitFailed(1)
    /\ CommitAsked(2)
    /\ qTx[2] = "committed"
    /\ ret[1].err # Nil

\* DB gave no connection for the shard of position i.
Unresolved(i) == \E n \in DOMAIN qLog : qLog[n] = <<"db", i, "nil">>

\* Begin failed on the connection of the shard of position i.
BeginFailed(i) == \E n \in DOMAIN qLog : qLog[n] = <<"begin", i, "fail">>

\* C24: when DB gives no connection for a selected shard (its key is no
\* longer registered, or its connection failed to open) or Begin fails on
\* it, the unit of work is not called for that shard, neither Commit nor
\* Rollback is called for it, and the shard's step fails with an error.
C24_NoTransactionNoUnitOfWork ==
    \A i \in DOMAIN selectedShards :
        (StepOver(i) /\ (Unresolved(i) \/ BeginFailed(i))) =>
            /\ ~qDo[i].called /\ ~QCalled("do", i)
            /\ ~QCalled("commit", i) /\ ~QCalled("rollback", i)
            /\ qTx[i] = "none"
            /\ Unresolved(i) => ~QCalled("begin", i) /\ qStepErr[i] = ErrFailedToOpenDB
            /\ BeginFailed(i) => qStepErr[i] = Leaf("begin", i)

C24_Witness ==
    /\ DoReturned /\ ~failFast
    /\ Len(selectedShards) = 2
    /\ Unresolved(1) /\ Get(Key(selectedShards[1])) = NoShard
    /\ BeginFailed(2)
    /\ Len(Entries(ret[1].err)) = 2

(* Properties of the connections *)
\* The entries that hold connection h.
HoldersOf(h) == {o \in Objs : db[o] = h}

\* C26: under every interleaving of Register, DB and CloseAll calls, a
\* connection that is open belongs to the entry the registry holds under
\* its key: no open connection is out of the registry's reach.
C26_NoOpenConnectionOutsideRegistry ==
    \A h \in Handles :
        connState[h] = "open" => \E o \in HoldersOf(h) : Get(Key(o)) = o

\* The registry has called Close on connection h.
CloseCalledOn(h) == connState[h] \in {"closed", "closeFailed"}

\* C27: after any sequence of Register, DB and CloseAll calls, a DB call
\* that finds its key in the registry never returns a connection on which
\* the registry has already called Close.
C27_DBNeverReturnsClosedConnection ==
    \A p \in Procs :
        (DBReturned(p) /\ ret[p].db # NilDB) => ~CloseCalledOn(ret[p].db)

(* Properties of DB *)
\* A DB call of goroutine p has returned nil for a key that is not registered.
NotFound(p) == pc[p] = "dbRet" /\ local[p].shard = NoShard

\* A DB call of goroutine p has returned for an entry whose open failed.
OpenFailedFor(p) == DBReturned(p) /\ dbErr[local[p].shard] # Nil

\* C18: what DB gives its caller for a key that is not registered differs
\* from what it gives for a registered key whose connection failed to open.
C18_NotFoundDiffersFromOpenFailure ==
    \A p, q \in Procs : (NotFound(p) /\ OpenFailedFor(q)) => ret[p] # ret[q]

\* The one open of entry o is over and has failed.
OpenFailed(o) == dbOnceDone[o] /\ dbErr[o] # Nil

\* C19: once the lazy connect of an entry has failed, the failure stays with
\* the entry: sql.Open has been called once for it and is never called
\* again, the stored error never changes, and every DB call that returns for
\* the entry gives no connection.
C19_OpenFailureCached ==
    /\ [](\A o \in Objs : OpenFailed(o) => opens[o] = 1 /\ db[o] = NilDB)
    /\ [](\A p \in Procs : OpenFailedFor(p) =>
                OpenFailed(local[p].shard) /\ ret[p].db = NilDB)
    /\ [][\A o \in Objs : OpenFailed(o) =>
                /\ dbOnceDone'[o]
                /\ dbErr'[o] = dbErr[o]
                /\ db'[o] = NilDB
                /\ opens'[o] = opens[o]]_vars

C19_Witness ==
    /\ OpenFailedFor(1) /\ OpenFailedFor(2)
    /\ local[1].shard = local[2].shard
    /\ opens[local[1].shard] = 1
    /\ ret[1].db = NilDB /\ ret[2].db = NilDB

-----------------------------------------------------------------------------
(***************************************************************************)
(* Properties of the SafeMap                                               *)
(***************************************************************************)
\* C16: every SafeMap operation uses s.data only while it holds the lock,
\* shared for a read and exclusive for a write, so that no goroutine is
\* inside the map while another one is writing it.
C16_MapUsedUnderLockOnly ==
    /\ \A p \in Procs : access[p] = "read" => p \in lock.readers
    /\ \A p \in Procs : access[p] = "write" => lock.writer = p
    /\ \A p, q \in Procs :
        (p # q /\ access[p] = "write") => access[q] = "none"

\* Goroutine p holds a copy made by Lookup or Clone.
HoldsCopy(p) == snapshot[p] # NoMap

\* C17: the map Lookup returns and the SafeMap Clone returns hold the
\* bindings s.data had when the copy was made and are independent of it: a
\* later Set or Del on the original leaves the copy as its holder made it,
\* and a write to the copy leaves the original as Set and Del made it.
C17_CopiesAreIndependent ==
    /\ heap[Data] = original
    /\ \A p \in Procs : HoldsCopy(p) =>
        /\ snapshot[p] # Data
        /\ heap[snapshot[p]] = expected[p]

C17_Witness ==
    /\ HoldsCopy(1)
    /\ mpc[1] = "idle" /\ mpc[2] = "idle"
    /\ heap[snapshot[1]] = [k \in SafeMapKeys |-> IF k = "k1" THEN "v1" ELSE NoValue]
    /\ heap[Data] = [k \in SafeMapKeys |-> IF k = "k2" THEN "v1" ELSE NoValue]
-----------------------------------------------------------------------------
(***************************************************************************)
(* Properties of NewSqlQuerier                                             *)
(***************************************************************************)
\* C28: when NewSqlQuerier returns an error, no connection it opened is
\* left open: those of the shards set up before the failing one, and those
\* opened for the shard whose setup failed.
C28_FailedConstructorLeavesNothingOpen ==
    (npc = "done" /\ nRet = "err") => \A c \in SqlDBs : sqlDB[c] # "open"

-----------------------------------------------------------------------------
(***************************************************************************)
(* Properties of the registry of shards.go                                 *)
(***************************************************************************)
\* The last Register call of goroutine p is over and returned no error.
RegisterSucceeded(p) ==
    /\ gpc[p] \in {"regRet", "idle"}
    /\ glocal[p].key = OwnKey(p)
    /\ gOpens[p] > 0
    /\ gret[p].err = Nil

\* C29: when goroutines register distinct keys at the same time, the first
\* registrations of the process included, the shard of every Register call
\* that returned success is in the registry afterwards.
C29_NoSuccessfulRegistrationLost ==
    \A p \in Procs :
        RegisterSucceeded(p) =>
            _shards # NilMap /\ OwnKey(p) \in KeysOf(_shards)

\* C30: as long as the registry has never been created, no call faults:
\* CloseAll returns no errors, DB no connection, On ErrShardNotFound without
\* calling the unit of work, OnAll nil, and Lookup no shards.
C30_CallsBeforeAnyRegistration ==
    _shards = NilMap =>
        \A p \in Procs :
            /\ gpc[p] # "panic"
            /\ gpc[p] = "caRet" => gret[p].errs = <<>>
            /\ gpc[p] = "dbRet" => gret[p].db = NilDB
            /\ gpc[p] = "onRet" => gret[p].err = ErrShardNotFound /\ ~gret[p].called
            /\ gpc[p] = "oaRet" => gret[p].err = Nil
            /\ gpc[p] = "luRet" => gret[p].shards = {}

=============================================================================
